---- MODULE Spec2Model ----
(***************************************************************************)
(* Model of actix-validated-forms: the streaming multipart loader          *)
(* (multipart/load.rs: load_parts, create_file, create_text).              *)
(*                                                                         *)
(* One run of load_parts is a sequential task.  It suspends at three       *)
(* places: payload.try_next().await (next part), field.next().await (next  *)
(* chunk of the current part) and web::block(..).await (disk write on the  *)
(* worker pool).  Each action below is the code between two suspension     *)
(* points; what the upstream stream or the worker pool answers is the      *)
(* action's input.                                                         *)
(***************************************************************************)
EXTENDS Integers, Sequences, FiniteSets, TLC

VARIABLES
    config,       \* MultipartLoadConfig {text_limit, file_limit, max_parts}
    pc,           \* suspension point of the load_parts task
    parts,        \* load_parts: `parts` (Multiparts = Vec<MultipartField>)
    text_budget,  \* load_parts: `text_budget`
    file_budget,  \* load_parts: `file_budget`
    cur,          \* create_file / create_text: name, filename, mime of the part being read
    written,      \* create_file / create_text: `written`
    budget,       \* create_file / create_text: `budget`
    acc,          \* create_text: `acc` (BytesMut)
    ntf,          \* create_file: `ntf`, handle of the temp file (index into files, 0 = none)
    holder,       \* who holds `ntf`: "none", "task" or "worker" (moved into the web::block closure)
    inflight,     \* bytes moved into the web::block closure, <<>> when no write is dispatched
    files,        \* the temp files on disk: sequence of [content, exists]
    result,       \* what load_parts returned: [kind, err]
    wire,         \* history: the parts pulled from the payload, with the chunks pulled from each
    fault,        \* history: the first fault reported by the environment, "none" if there was none
    form,         \* the Multiparts list a caller holds after load_parts returned Ok
    op,           \* the last call made on `form`: [fn, name, ty]
    ret,          \* what that call returned: [tag, val, err]
    handed,       \* history: the File fields returned to a caller, in order
    first,        \* history: the first text call made on `form`, its result, and whether
                  \* it was made again after a different call, where recorded
    calls,        \* history: the field names try_from passed to MultipartType::get, in order
    req           \* one run of a validated extractor's from_request: [extractor, stage, ...]

\* the state of the loader
loadvars == <<config, pc, parts, text_budget, file_budget, cur, written, budget,
              acc, ntf, holder, inflight, files, result, wire, fault>>

\* the state of the code that runs on the loader's result
callervars == <<form, op, ret, handed, first, calls, req>>

vars == <<loadvars, callervars>>

-----------------------------------------------------------------------------
(* Bounds of the model *)

TextLimit   == 2   \* the text_limit configured (scaled down from 1 MiB)
FileLimit   == 2   \* the file_limit configured (scaled down from 512 MiB)
MaxPartsCfg == 2   \* largest max_parts configured
MaxEvents   == 4   \* parts and chunks the payload yields at most, in total
MaxChunkLen == 2   \* bytes in one chunk at most

\* the payload yields at most one part more than the largest max_parts
MaxStream == MaxPartsCfg + 1

-----------------------------------------------------------------------------
(* Values *)

None == "None"

\* the two bytes of U+00E9 (0xC3 0xA9)
Bytes == {195, 169}

RECURSIVE SeqsUpTo(_, _)
SeqsUpTo(S, n) ==
    IF n = 0 THEN {<<>>}
    ELSE LET shorter == SeqsUpTo(S, n - 1)
         IN  shorter \cup {Append(s, b) : s \in {t \in shorter : Len(t) = n - 1}, b \in S}

Chunks == SeqsUpTo(Bytes, MaxChunkLen)

Names == {"a"}

TEXT_PLAIN == "text/plain"
APPLICATION_OCTET_STREAM == "application/octet-stream"
IMAGE_PNG == "image/png"

\* value of the Content-Type header of a part: absent, or the mime it parses to
ContentTypes == {"absent", TEXT_PLAIN, IMAGE_PNG}

\* the headers of one part, as actix_multipart::Field exposes them
PartHeaders ==
    [cd : {"absent"}, name : {None}, filename : {None}, ct : {"absent"}]
    \cup [cd : {"attachment"}, name : Names, filename : {"f.txt"}, ct : {IMAGE_PNG}]
    \cup [cd : {"form-data"}, name : {None}, filename : {None}, ct : {TEXT_PLAIN}]
    \cup [cd : {"form-data"}, name : Names, filename : {None, "f.txt"}, ct : ContentTypes]

\* errors a part stream or a chunk stream can report (MultipartError)
StreamErrors == {"Incomplete", "Payload(Incomplete)"}

Configs == [text_limit : {TextLimit}, file_limit : {FileLimit},
            max_parts : 0..MaxPartsCfg]

NoCur == [name |-> None, filename |-> None, mime |-> None]

-----------------------------------------------------------------------------
(* Pure helpers *)

\* String::from_utf8 accepts exactly the well-formed UTF-8 byte sequences
\* (core::str::from_utf8); the String then holds the same bytes.
IsCont(b) == b >= 128 /\ b <= 191

\* from_utf8_lossy: every byte string is accepted
Utf8Valid_Lossy(s) == TRUE

RECURSIVE Utf8Valid(_)
Utf8Valid(s) ==
    IF s = <<>> THEN TRUE
    ELSE LET b == s[1]
             n == Len(s)
         IN  IF b < 128 THEN Utf8Valid(Tail(s))
             ELSE IF b >= 194 /\ b <= 223
                  THEN n >= 2 /\ IsCont(s[2]) /\ Utf8Valid(SubSeq(s, 3, n))
             ELSE IF b >= 224 /\ b <= 239
                  THEN /\ n >= 3
                       /\ IF b = 224 THEN s[2] >= 160 /\ s[2] <= 191
                          ELSE IF b = 237 THEN s[2] >= 128 /\ s[2] <= 159
                          ELSE IsCont(s[2])
                       /\ IsCont(s[3])
                       /\ Utf8Valid(SubSeq(s, 4, n))
             ELSE IF b >= 240 /\ b <= 244
                  THEN /\ n >= 4
                       /\ IF b = 240 THEN s[2] >= 144 /\ s[2] <= 191
                          ELSE IF b = 244 THEN s[2] >= 128 /\ s[2] <= 143
                          ELSE IsCont(s[2])
                       /\ IsCont(s[3])
                       /\ IsCont(s[4])
                       /\ Utf8Valid(SubSeq(s, 5, n))
             ELSE FALSE

\* actix_multipart::Field::content_type(): the parsed Content-Type header,
\* application/octet-stream when the header is absent
FieldContentType(h) == IF h.ct = "absent" THEN APPLICATION_OCTET_STREAM ELSE h.ct

\* variant: the default of Field::content_type() is used when the header is absent
ContentType_NoDefault(h) == FieldContentType(h)

\* load_parts: `content_type`, defaulting to text/plain when the header is absent
ContentType(h) == IF h.ct = "absent" THEN TEXT_PLAIN ELSE FieldContentType(h)

\* load_parts: the condition of `let item = if ...`, true for a text part
IsTextPart(h) == ContentType(h) = TEXT_PLAIN /\ h.filename = None

\* variant: the field name is not required
HeaderOk_NoName(h) == h.cd # "absent" /\ h.cd = "form-data"

\* load_parts: the three header checks that return ParseError::Header
HeaderOk(h) == h.cd # "absent" /\ h.cd = "form-data" /\ h.name # None

\* variant: one part fewer is admitted
TooManyParts_Early(len, max) == len + 1 >= max

\* variant: one part more is admitted
TooManyParts_Late(len, max) == len > max

\* load_parts: `parts.len() >= config.max_parts`
TooManyParts(len, max) == len >= max

\* variant: a chunk one byte over the remaining budget is accepted
OverBudget_Lax(b, length) == b + 1 < length

\* variant: a chunk equal to the remaining budget is rejected
OverBudget_Strict(b, length) == b <= length

\* create_file / create_text: `budget < length`
OverBudget(b, length) == b < length

\* variant: the bytes are written at the start of the file
WriteAll_Front(content, bytes) == bytes \o content

\* write_all: the bytes are appended to the file
WriteAll(content, bytes) == content \o bytes

\* variant: the item is inserted at the front
Push_Front(list, item) == <<item>> \o list

\* Vec::push
Push(list, item) == Append(list, item)

\* MultipartField::Text(MultipartText { name, text })
TextField(name, text) ==
    [kind |-> "Text", name |-> name, text |-> text,
     filename |-> None, mime |-> None, size |-> 0, file |-> 0]

\* MultipartField::File(MultipartFile { file, size, name, filename, mime })
FileField(file, size, name, filename, mime) ==
    [kind |-> "File", name |-> name, text |-> <<>>,
     filename |-> filename, mime |-> mime, size |-> size, file |-> file]

\* the NamedTempFile is leaked: the file stays on disk
Drop_Keep(fs, h) == fs

\* dropping a NamedTempFile deletes the file
Drop(fs, h) == [fs EXCEPT ![h].exists = FALSE]

\* the files of the list are leaked
DropAll_None(fs, list) == fs

\* dropping `parts` drops the NamedTempFile of every File field in it
DropAll(fs, list) ==
    [i \in DOMAIN fs |->
        IF \E j \in DOMAIN list : list[j].kind = "File" /\ list[j].file = i
        THEN [fs[i] EXCEPT !.exists = FALSE] ELSE fs[i]]

\* no call has been made on the list yet
NoOp == [fn |-> "none", name |-> None, ty |-> None]

\* nothing has been returned yet
\* no GetError
NoErr == [kind |-> "none", name |-> None, ty |-> None]

NoRet == [tag |-> "none", val |-> <<>>, err |-> NoErr]

\* no text call has been recorded; `on` says whether the run records one
NoFirst(on) == [on |-> on, op |-> NoOp, ret |-> NoRet, again |-> FALSE]

\* no extractor is running
NoReq == [extractor |-> "none", stage |-> "none"]

-----------------------------------------------------------------------------
(* Initial state: load_parts has been called and awaits the first part *)

Init ==
    /\ config \in Configs
    /\ pc = "try_next"
    /\ parts = <<>>
    /\ text_budget = config.text_limit
    /\ file_budget = config.file_limit
    /\ cur = NoCur
    /\ written = 0
    /\ budget = 0
    /\ acc = <<>>
    /\ ntf = 0
    /\ holder = "none"
    /\ inflight = <<>>
    /\ files = <<>>
    /\ result = [kind |-> "none", err |-> None]
    /\ wire = <<>>
    /\ fault = "none"
    /\ form = <<>>
    /\ op = NoOp
    /\ ret = NoRet
    /\ handed = <<>>
    /\ first = NoFirst(FALSE)
    /\ calls = <<>>
    /\ req = NoReq

\* the error is stored but the future of load_parts never resolves
ReturnErr_Pending(e, fs) ==
    /\ result' = [kind |-> "Err", err |-> e]
    /\ pc' = "pending"
    /\ files' = DropAll(fs, parts)
    /\ holder' = "none"
    /\ inflight' = <<>>

\* load_parts returns Err(e): the locals, `parts` among them, are dropped
ReturnErr(e, fs) ==
    /\ result' = [kind |-> "Err", err |-> e]
    /\ pc' = "returned"
    /\ files' = DropAll(fs, parts)
    /\ holder' = "none"
    /\ inflight' = <<>>

\* number of parts and chunks pulled so far
RECURSIVE EventCount(_)
EventCount(w) == IF w = <<>> THEN 0 ELSE 1 + Len(w[1].chunks) + EventCount(Tail(w))

\* the chunk just pulled is recorded on the wire history
WithChunk(w, c) == [w EXCEPT ![Len(w)].chunks = Append(@, c)]

-----------------------------------------------------------------------------
(* load_parts *)

\* the headers are looked at before the parts are counted
load_parts_field_HeaderFirst(h, create_ok) ==
    /\ pc = "try_next"
    /\ Len(wire) < MaxStream
    /\ EventCount(wire) < MaxEvents
    /\ wire' = Append(wire, [hdr |-> h, chunks |-> <<>>])
    /\ IF ~HeaderOk(h)
       THEN /\ ReturnErr("Parse(Header)", files)
            /\ UNCHANGED <<cur, written, budget, acc, ntf, fault>>
       ELSE IF TooManyParts(Len(parts), config.max_parts)
       THEN /\ ReturnErr("Payload(Overflow)", files)
            /\ UNCHANGED <<cur, written, budget, acc, ntf, fault>>
       ELSE IF IsTextPart(h)
       THEN \* create_text(field, name, text_budget)
            /\ cur' = [name |-> h.name, filename |-> None, mime |-> None]
            /\ written' = 0
            /\ budget' = text_budget
            /\ acc' = <<>>
            /\ pc' = "text_next"
            /\ UNCHANGED <<ntf, holder, inflight, files, result, fault>>
       ELSE \* create_file(field, name, filename, file_budget, content_type)
            IF create_ok
            THEN /\ cur' = [name |-> h.name, filename |-> h.filename,
                            mime |-> ContentType(h)]
                 /\ written' = 0
                 /\ budget' = file_budget
                 /\ files' = Append(files, [content |-> <<>>, exists |-> TRUE])
                 /\ ntf' = Len(files) + 1
                 /\ holder' = "task"
                 /\ pc' = "file_next"
                 /\ UNCHANGED <<acc, inflight, result, fault>>
            ELSE \* NamedTempFile::new() failed
                 /\ ReturnErr("Payload(Io)", files)
                 /\ fault' = "create"
                 /\ UNCHANGED <<cur, written, budget, acc, ntf>>
    /\ UNCHANGED <<config, parts, text_budget, file_budget>>
    /\ UNCHANGED callervars

\* payload.try_next() yields Ok(Some(field)): the loop body up to the first
\* await inside create_text or create_file
load_parts_field(h, create_ok) ==
    /\ pc = "try_next"
    /\ Len(wire) < MaxStream
    /\ EventCount(wire) < MaxEvents
    /\ wire' = Append(wire, [hdr |-> h, chunks |-> <<>>])
    /\ IF TooManyParts(Len(parts), config.max_parts)
       THEN /\ ReturnErr("Payload(Overflow)", files)
            /\ UNCHANGED <<cur, written, budget, acc, ntf, fault>>
       ELSE IF ~HeaderOk(h)
       THEN /\ ReturnErr("Parse(Header)", files)
            /\ UNCHANGED <<cur, written, budget, acc, ntf, fault>>
       ELSE IF IsTextPart(h)
       THEN \* create_text(field, name, text_budget)
            /\ cur' = [name |-> h.name, filename |-> None, mime |-> None]
            /\ written' = 0
            /\ budget' = text_budget
            /\ acc' = <<>>
            /\ pc' = "text_next"
            /\ UNCHANGED <<ntf, holder, inflight, files, result, fault>>
       ELSE \* create_file(field, name, filename, file_budget, content_type)
            IF create_ok
            THEN /\ cur' = [name |-> h.name, filename |-> h.filename,
                            mime |-> ContentType(h)]
                 /\ written' = 0
                 /\ budget' = file_budget
                 /\ files' = Append(files, [content |-> <<>>, exists |-> TRUE])
                 /\ ntf' = Len(files) + 1
                 /\ holder' = "task"
                 /\ pc' = "file_next"
                 /\ UNCHANGED <<acc, inflight, result, fault>>
            ELSE \* NamedTempFile::new() failed
                 /\ ReturnErr("Payload(Io)", files)
                 /\ fault' = "create"
                 /\ UNCHANGED <<cur, written, budget, acc, ntf>>
    /\ UNCHANGED <<config, parts, text_budget, file_budget>>
    /\ UNCHANGED callervars

\* payload.try_next() yields Ok(None): the loop ends, Ok(parts)
load_parts_end ==
    /\ pc = "try_next"
    /\ result' = [kind |-> "Ok", err |-> None]
    /\ pc' = "returned"
    /\ UNCHANGED <<config, parts, text_budget, file_budget, cur, written, budget,
                   acc, ntf, holder, inflight, files, wire, fault>>
    /\ UNCHANGED callervars

\* payload.try_next() yields Err(e): `while let Ok(Some(field))` does not
\* match, the loop ends and the function returns Ok(parts)
load_parts_stream_error(e) ==
    /\ pc = "try_next"
    /\ fault' = "stream"
    /\ result' = [kind |-> "Ok", err |-> None]
    /\ pc' = "returned"
    /\ UNCHANGED <<config, parts, text_budget, file_budget, cur, written, budget,
                   acc, ntf, holder, inflight, files, wire>>
    /\ UNCHANGED callervars

-----------------------------------------------------------------------------
(* create_text *)

\* variant: each chunk is decoded as it arrives
create_text_chunk_Utf8PerChunk(bytes) ==
    /\ pc = "text_next"
    /\ EventCount(wire) < MaxEvents
    /\ wire' = WithChunk(wire, bytes)
    /\ IF OverBudget(budget, Len(bytes))
       THEN /\ ReturnErr("Payload(Overflow)", files)
            /\ UNCHANGED <<acc, written, budget>>
       ELSE IF ~Utf8Valid(bytes)
       THEN /\ ReturnErr("Parse(Utf8)", files)
            /\ UNCHANGED <<acc, written, budget>>
       ELSE /\ acc' = acc \o bytes
            /\ written' = written + Len(bytes)
            /\ budget' = budget - Len(bytes)
            /\ UNCHANGED <<pc, result, files, holder, inflight>>
    /\ UNCHANGED <<config, parts, text_budget, file_budget, cur, ntf, fault>>
    /\ UNCHANGED callervars

\* field.next() yields Some(Ok(bytes))
create_text_chunk(bytes) ==
    /\ pc = "text_next"
    /\ EventCount(wire) < MaxEvents
    /\ wire' = WithChunk(wire, bytes)
    /\ IF OverBudget(budget, Len(bytes))
       THEN /\ ReturnErr("Payload(Overflow)", files)
            /\ UNCHANGED <<acc, written, budget>>
       ELSE /\ acc' = acc \o bytes
            /\ written' = written + Len(bytes)
            /\ budget' = budget - Len(bytes)
            /\ UNCHANGED <<pc, result, files, holder, inflight>>
    /\ UNCHANGED <<config, parts, text_budget, file_budget, cur, ntf, fault>>
    /\ UNCHANGED callervars

\* field.next() yields Some(Err(e)): `chunk?` returns it
create_text_chunk_error(e) ==
    /\ pc = "text_next"
    /\ fault' = "chunk"
    /\ ReturnErr(e, files)
    /\ UNCHANGED <<config, parts, text_budget, file_budget, cur, written, budget,
                   acc, ntf, wire>>
    /\ UNCHANGED callervars

\* field.next() yields None: from_utf8, then back in load_parts the budget
\* is reduced and the Text field pushed
create_text_end ==
    /\ pc = "text_next"
    /\ IF Utf8Valid(acc)
       THEN /\ text_budget' = text_budget - written
            /\ parts' = Push(parts, TextField(cur.name, acc))
            /\ pc' = "try_next"
            /\ cur' = NoCur
            /\ acc' = <<>>
            /\ written' = 0
            /\ budget' = 0
            /\ UNCHANGED <<result, files, holder, inflight>>
       ELSE /\ ReturnErr("Parse(Utf8)", files)
            /\ UNCHANGED <<text_budget, parts, cur, acc, written, budget>>
    /\ UNCHANGED <<config, file_budget, ntf, wire, fault>>
    /\ UNCHANGED callervars

-----------------------------------------------------------------------------
(* create_file *)

\* the write is dispatched and the next chunk is awaited at once
create_file_chunk_NoAwait(bytes) ==
    /\ pc = "file_next"
    /\ EventCount(wire) < MaxEvents
    /\ wire' = WithChunk(wire, bytes)
    /\ IF OverBudget(budget, Len(bytes))
       THEN /\ ReturnErr("Payload(Overflow)", Drop(files, ntf))
       ELSE /\ pc' = "file_next"
            /\ holder' = "worker"
            /\ inflight' = bytes
            /\ UNCHANGED <<result, files>>
    /\ UNCHANGED <<config, parts, text_budget, file_budget, cur, written, budget,
                   acc, ntf, fault>>
    /\ UNCHANGED callervars

\* field.next() yields Some(Ok(bytes)): the budget check, then the write is
\* dispatched with web::block, which moves `ntf` and `bytes` into the closure
create_file_chunk(bytes) ==
    /\ pc = "file_next"
    /\ EventCount(wire) < MaxEvents
    /\ wire' = WithChunk(wire, bytes)
    /\ IF OverBudget(budget, Len(bytes))
       THEN /\ ReturnErr("Payload(Overflow)", Drop(files, ntf))
       ELSE /\ pc' = "file_write"
            /\ holder' = "worker"
            /\ inflight' = bytes
            /\ UNCHANGED <<result, files>>
    /\ UNCHANGED <<config, parts, text_budget, file_budget, cur, written, budget,
                   acc, ntf, fault>>
    /\ UNCHANGED callervars

\* field.next() yields Some(Err(e)): `chunk?` returns it, `ntf` is dropped
create_file_chunk_error(e) ==
    /\ pc = "file_next"
    /\ fault' = "chunk"
    /\ ReturnErr(e, Drop(files, ntf))
    /\ UNCHANGED <<config, parts, text_budget, file_budget, cur, written, budget,
                   acc, ntf, wire>>
    /\ UNCHANGED callervars

\* the closure ran and write_all succeeded: `ntf` comes back to the task
create_file_write_ok ==
    /\ pc = "file_write"
    /\ files' = [files EXCEPT ![ntf].content = WriteAll(@, inflight)]
    /\ written' = written + Len(inflight)
    /\ budget' = budget - Len(inflight)
    /\ holder' = "task"
    /\ inflight' = <<>>
    /\ pc' = "file_next"
    /\ UNCHANGED <<config, parts, text_budget, file_budget, cur, acc, ntf,
                   result, wire, fault>>
    /\ UNCHANGED callervars

\* the closure ran and write_all failed after k bytes (write_all of an empty
\* buffer does nothing and cannot fail): BlockingError::Error(Payload(Io)),
\* `ntf` was dropped in the closure
create_file_write_error(k) ==
    /\ pc = "file_write"
    /\ k < Len(inflight)
    /\ fault' = "write"
    /\ ReturnErr("Payload(Io)",
                 Drop([files EXCEPT ![ntf].content =
                          WriteAll(@, SubSeq(inflight, 1, k))], ntf))
    /\ UNCHANGED <<config, parts, text_budget, file_budget, cur, written, budget,
                   acc, ntf, wire>>
    /\ UNCHANGED callervars

\* the closure never ran: BlockingError::Canceled becomes Incomplete, `ntf`
\* is dropped with the closure
create_file_write_canceled ==
    /\ pc = "file_write"
    /\ fault' = "cancel"
    /\ ReturnErr("Incomplete", Drop(files, ntf))
    /\ UNCHANGED <<config, parts, text_budget, file_budget, cur, written, budget,
                   acc, ntf, wire>>
    /\ UNCHANGED callervars

\* field.next() yields None: the MultipartFile is built, then back in
\* load_parts the budget is reduced and the File field pushed
create_file_end ==
    /\ pc = "file_next"
    /\ file_budget' = file_budget - written
    /\ parts' = Push(parts, FileField(ntf, written, cur.name, cur.filename, cur.mime))
    /\ pc' = "try_next"
    /\ cur' = NoCur
    /\ written' = 0
    /\ budget' = 0
    /\ ntf' = 0
    /\ holder' = "none"
    /\ UNCHANGED <<config, text_budget, acc, inflight, files, result, wire, fault>>
    /\ UNCHANGED callervars

-----------------------------------------------------------------------------

Next ==
    \/ \E h \in PartHeaders, ok \in BOOLEAN : load_parts_field(h, ok)
    \/ load_parts_end
    \/ \E e \in StreamErrors : load_parts_stream_error(e)
    \/ \E c \in Chunks : create_text_chunk(c)
    \/ \E e \in StreamErrors : create_text_chunk_error(e)
    \/ create_text_end
    \/ \E c \in Chunks : create_file_chunk(c)
    \/ \E e \in StreamErrors : create_file_chunk_error(e)
    \/ create_file_write_ok
    \/ \E k \in 0..(MaxChunkLen - 1) : create_file_write_error(k)
    \/ create_file_write_canceled
    \/ create_file_end

Spec == Init /\ [][Next]_vars

TypeOK ==
    /\ config \in Configs
    /\ pc \in {"try_next", "text_next", "file_next", "file_write", "returned"}
    /\ holder \in {"none", "task", "worker"}
    /\ result.kind \in {"none", "Ok", "Err"}

-----------------------------------------------------------------------------
(* What the payload delivered, read off the wire history *)

RECURSIVE Concat(_)
Concat(chs) == IF chs = <<>> THEN <<>> ELSE chs[1] \o Concat(Tail(chs))

\* the bytes pulled from one part
WireBytes(p) == Concat(p.chunks)

\* a part that has no Content-Disposition, a disposition other than
\* form-data, or no field name
WireHeaderBad(h) == h.cd = "absent" \/ h.cd # "form-data" \/ h.name = None

\* the content type of a part, text/plain when it has no Content-Type header
WireMime(h) == IF h.ct = "absent" THEN "text/plain" ELSE h.ct

\* a part is a file when its content type is not text/plain or it has a filename
WireIsFile(h) == WireMime(h) # "text/plain" \/ h.filename # None

\* bytes pulled from the file parts (isFile) or the text parts (~isFile)
RECURSIVE WireTotal(_, _)
WireTotal(w, isFile) ==
    IF w = <<>> THEN 0
    ELSE (IF ~WireHeaderBad(w[1].hdr) /\ WireIsFile(w[1].hdr) = isFile
          THEN Len(WireBytes(w[1])) ELSE 0) + WireTotal(Tail(w), isFile)

\* a part was pulled in this step
PartStep == Len(wire') = Len(wire) + 1

\* a chunk was pulled in this step
ChunkStep == Len(wire') = Len(wire) /\ wire' # wire

\* the chunk pulled in a ChunkStep
NewChunk == LET cs == wire'[Len(wire')].chunks IN cs[Len(cs)]

\* the part pulled last
LastPart == wire[Len(wire)]

\* every part pulled is a form-data part with a name, the text parts are
\* valid UTF-8, and neither a chunk stream nor a temp file reported a fault
WellFormed ==
    /\ \A i \in DOMAIN wire : ~WireHeaderBad(wire[i].hdr)
    /\ \A i \in DOMAIN wire :
          ~WireIsFile(wire[i].hdr) => Utf8Valid(WireBytes(wire[i]))
    /\ fault \notin {"chunk", "create", "write", "cancel"}

WithinBudgets ==
    /\ WireTotal(wire, TRUE) <= config.file_limit
    /\ WireTotal(wire, FALSE) <= config.text_limit
    /\ Len(wire) <= config.max_parts

RECURSIVE SumLen(_)
SumLen(seqs) == IF seqs = <<>> THEN 0 ELSE Len(seqs[1]) + SumLen(Tail(seqs))

\* bytes written to temp files so far, over all file parts
FileBytesWritten == SumLen([i \in DOMAIN files |-> files[i].content])

\* bytes accumulated into text buffers so far, over all text parts
TextBytesAccumulated == SumLen([i \in DOMAIN parts |-> parts[i].text]) + Len(acc)

-----------------------------------------------------------------------------
(* C1 *)

\* C1: if the part stream yields an error while load_parts waits for the
\* next part, load_parts returns an error, never Ok.
C1_StreamErrorReturnsErr == fault = "stream" => result.kind = "Err"

(* C2 *)

\* C2: load_parts ends either with the complete field list (no failure
\* happened and every part pulled has its field) or with an error; once it
\* has returned nothing more is pulled from the stream.
C2_AllOrNothing ==
    /\ [](pc = "returned" => result.kind \in {"Ok", "Err"})
    /\ [](result.kind = "Ok" => fault = "none" /\ Len(parts) = Len(wire))
    /\ [][result.kind # "none" => wire' = wire]_vars

(* C3 *)

\* C3: the bytes written to temp files never exceed file_limit, the bytes
\* accumulated as text never exceed text_limit, and no budget counter
\* goes below zero.
C3_BudgetsHold ==
    /\ FileBytesWritten <= config.file_limit
    /\ TextBytesAccumulated <= config.text_limit
    /\ text_budget >= 0
    /\ file_budget >= 0
    /\ budget >= 0
    /\ pc = "file_write" => budget - Len(inflight) >= 0

\* two file parts of one byte each have been charged to the file budget
C3_Witness ==
    /\ Len(parts) = 2
    /\ parts[1].kind = "File" /\ parts[1].size = 1
    /\ parts[2].kind = "File" /\ parts[2].size = 1
    /\ file_budget = config.file_limit - 2

(* C4 *)

\* C4 as stated: whenever the totals are within the budgets and the part
\* count within max_parts, load_parts succeeds with one field per part.
C4_WithinBudgetsSucceeds ==
    (pc = "returned" /\ WithinBudgets)
        => (result.kind = "Ok" /\ Len(parts) = Len(wire))

\* C4 amended: if moreover the parts are well formed and no chunk stream
\* or temp file reports a fault, load_parts succeeds with one field per part.
C4_WellFormedWithinBudgetsSucceeds ==
    (pc = "returned" /\ WithinBudgets /\ WellFormed)
        => (result.kind = "Ok" /\ Len(parts) = Len(wire))

\* a text part and a file part, both with bytes, were decoded
C4_Witness ==
    /\ result.kind = "Ok"
    /\ fault = "none"
    /\ Len(parts) = 2
    /\ parts[1].kind = "Text" /\ parts[1].text # <<>>
    /\ parts[2].kind = "File" /\ parts[2].size > 0

(* C5 *)

\* C5: a chunk is rejected with the overflow error exactly when it is longer
\* than what remains of the budget of its kind after the bytes accepted
\* before it; a rejected chunk is not stored, and no field is added for its
\* part or for a later one.
C5_OverflowAtChunk ==
    [][ChunkStep =>
        LET isFile == pc = "file_next"
            limit  == IF isFile THEN config.file_limit ELSE config.text_limit
            remaining == limit - WireTotal(wire, isFile)
        IN  IF Len(NewChunk) > remaining
            THEN /\ result' = [kind |-> "Err", err |-> "Payload(Overflow)"]
                 /\ pc' = "returned"
                 /\ \A i \in DOMAIN files : files'[i].content = files[i].content
                 /\ acc' = acc
                 /\ parts' = parts
                 /\ Len(parts) = Len(wire) - 1
            ELSE result'.kind = "none"
    ]_vars

\* the second file part was rejected at its first chunk, which fits the
\* configured limit but not what the first part left of it
C5_Witness ==
    /\ result = [kind |-> "Err", err |-> "Payload(Overflow)"]
    /\ Len(wire) = 2
    /\ Len(parts) = 1
    /\ parts[1].kind = "File" /\ parts[1].size = 1
    /\ WireIsFile(wire[2].hdr) /\ ~WireHeaderBad(wire[2].hdr)
    /\ Len(wire[2].chunks) = 1
    /\ Len(WireBytes(wire[2])) > config.file_limit - 1
    /\ Len(WireBytes(wire[2])) <= config.file_limit

(* C6 *)

\* C6: with max_parts = N the part-count error is raised exactly when part
\* N+1 arrives, a body of exactly N well-formed parts within the byte
\* budgets is accepted, and a returned list never has more than N fields.
C6_PartCount ==
    /\ [](result.kind = "Ok" => Len(parts) <= config.max_parts)
    /\ []((pc = "returned" /\ Len(wire) = config.max_parts
             /\ WithinBudgets /\ WellFormed)
            => (result.kind = "Ok" /\ Len(parts) = config.max_parts))
    /\ [][PartStep =>
            IF Len(wire') > config.max_parts
            THEN result' = [kind |-> "Err", err |-> "Payload(Overflow)"]
            ELSE result'.err # "Payload(Overflow)"
       ]_vars

\* max_parts = 2: two parts were accepted and the third was refused
C6_Witness ==
    /\ config.max_parts = 2
    /\ Len(parts) = 2
    /\ Len(wire) = 3
    /\ result = [kind |-> "Err", err |-> "Payload(Overflow)"]

(* C7 *)

\* C7: a part becomes a File field if its content type (text/plain when the
\* header is absent) is not text/plain or it has a filename, a Text field
\* otherwise; the File field records the filename and that content type.
C7_Classification ==
    /\ \A i \in DOMAIN parts :
        /\ parts[i].kind = (IF WireIsFile(wire[i].hdr) THEN "File" ELSE "Text")
        /\ parts[i].kind = "File" =>
              /\ parts[i].filename = wire[i].hdr.filename
              /\ parts[i].mime = WireMime(wire[i].hdr)
    /\ pc \in {"file_next", "file_write"} => WireIsFile(LastPart.hdr)
    /\ pc = "text_next" => ~WireIsFile(LastPart.hdr)

\* two parts without a Content-Type header: the one without a filename is
\* Text, the one with a filename is File
C7_Witness ==
    /\ Len(parts) = 2
    /\ wire[1].hdr.ct = "absent" /\ wire[1].hdr.filename = None
    /\ parts[1].kind = "Text"
    /\ wire[2].hdr.ct = "absent" /\ wire[2].hdr.filename # None
    /\ parts[2].kind = "File"

(* C8 *)

\* C8 as stated: a part with no Content-Disposition, a disposition other
\* than form-data or no name fails with the header error.
C8_BadHeaderIsHeaderError ==
    [][(PartStep /\ WireHeaderBad(wire'[Len(wire')].hdr))
        => result' = [kind |-> "Err", err |-> "Parse(Header)"]]_vars

\* C8 amended: such a part fails with the header error when fewer than
\* max_parts fields were accepted before it, and with the part-count error
\* otherwise; in both cases no byte of it is read and no temp file created.
C8_BadHeaderFails ==
    [][(PartStep /\ WireHeaderBad(wire'[Len(wire')].hdr))
        => /\ result'.kind = "Err"
           /\ result'.err = (IF Len(parts) < config.max_parts
                             THEN "Parse(Header)" ELSE "Payload(Overflow)")
           /\ pc' = "returned"
           /\ wire'[Len(wire')].chunks = <<>>
           /\ Len(files') = Len(files)]_vars

\* after one accepted part, a part without a field name was refused
C8_Witness ==
    /\ result = [kind |-> "Err", err |-> "Parse(Header)"]
    /\ Len(parts) = 1
    /\ Len(wire) = 2
    /\ wire[2].hdr.cd = "form-data" /\ wire[2].hdr.name = None

(* C9 *)

\* C9: the size of every File field is the number of bytes in its temp file,
\* and the temp file holds the part's chunks concatenated in arrival order.
C9_FileSizeAndContent ==
    \A i \in DOMAIN parts :
        parts[i].kind = "File" =>
            /\ parts[i].size = Len(files[parts[i].file].content)
            /\ files[parts[i].file].content = WireBytes(wire[i])

\* a returned File field written from two different non-empty chunks
C9_Witness ==
    /\ result.kind = "Ok"
    /\ \E i \in DOMAIN parts :
        /\ parts[i].kind = "File"
        /\ Len(wire[i].chunks) = 2
        /\ wire[i].chunks[1] # <<>> /\ wire[i].chunks[2] # <<>>
        /\ wire[i].chunks[1] # wire[i].chunks[2]
        /\ files[parts[i].file].exists

(* C10 *)

\* C10: the i-th field of the list was decoded from the i-th part: it has
\* that part's name and that part's bytes.
C10_WireOrder ==
    /\ Len(parts) <= Len(wire)
    /\ \A i \in DOMAIN parts :
        /\ parts[i].name = wire[i].hdr.name
        /\ IF parts[i].kind = "Text"
           THEN parts[i].text = WireBytes(wire[i])
           ELSE /\ parts[i].filename = wire[i].hdr.filename
                /\ parts[i].size = Len(WireBytes(wire[i]))

\* a returned list of two fields decoded from two different parts
C10_Witness ==
    /\ result.kind = "Ok"
    /\ Len(parts) = 2
    /\ wire[1] # wire[2]
    /\ WireBytes(wire[1]) # WireBytes(wire[2])

-----------------------------------------------------------------------------
(***************************************************************************)
(* The extraction engine (multipart/mod.rs): MultipartType::get and        *)
(* MultipartTypeSpecial::get over a Multiparts list.  A caller holds the   *)
(* list that load_parts returned and makes any sequence of get calls on    *)
(* it; each action below is one call.                                      *)
(***************************************************************************)

\* longest field list a caller holds
MaxFormLen == 3

\* field names of the lists and of the calls
GetNames == {"a", "b"}

\* the texts of the Text fields, as UTF-8 bytes: "69" and "x"
Texts == {<<54, 57>>, <<120>>}

\* the target types T of a text get, by std::any::type_name::<T>()
Types == {"i32", "alloc::string::String"}

\* Result::Ok(v)
Ok(v) == [tag |-> "Ok", val |-> v, err |-> NoErr]

\* Result::Err(e)
Err(e) == [tag |-> "Err", val |-> <<>>, err |-> e]

\* a panic unwinding out of the call
Panic == [tag |-> "Panic", val |-> <<>>, err |-> NoErr]

\* Option::Some(v) and Option::None
Some(v) == <<"Some", v>>
NoneOpt == <<"None">>

\* GetError::NotFound(field_name.into())
NotFound(field_name) == [kind |-> "NotFound", name |-> field_name, ty |-> None]

\* GetError::TypeError(field_name.into(), std::any::type_name::<T>().into())
TypeError(field_name, T) == [kind |-> "TypeError", name |-> field_name, ty |-> T]

\* GetError::DuplicateField(field_name.into())
DuplicateField(field_name) == [kind |-> "DuplicateField", name |-> field_name, ty |-> None]

\* i32::MAX
I32Max == 2147483647

\* the value of a run of ASCII decimal digits, most significant first
RECURSIVE FromDigits(_, _)
FromDigits(s, v) ==
    IF s = <<>> THEN v ELSE FromDigits(Tail(s), v * 10 + (s[1] - 48))

\* <i32 as FromStr>::from_str: an optional sign, then one or more decimal
\* digits, the value within the range of i32
ParseI32(s) ==
    IF s = <<>> THEN [ok |-> FALSE, val |-> 0]
    ELSE LET signed == s[1] \in {43, 45}
             digits == IF signed THEN Tail(s) ELSE s
         IN  IF digits = <<>> \/ \E i \in DOMAIN digits : digits[i] \notin 48..57
             THEN [ok |-> FALSE, val |-> 0]
             ELSE LET v == FromDigits(digits, 0) IN
                  IF s[1] = 45
                  THEN IF v - 1 > I32Max THEN [ok |-> FALSE, val |-> 0]
                       ELSE [ok |-> TRUE, val |-> 0 - v]
                  ELSE IF v > I32Max THEN [ok |-> FALSE, val |-> 0]
                       ELSE [ok |-> TRUE, val |-> v]

\* x.text.parse::<T>(): i32 by from_str, String by copying the text
Parse(T, text) ==
    IF T = "i32" THEN ParseI32(text) ELSE [ok |-> TRUE, val |-> text]

\* Vec<T>::get, the loop from field i on: File fields and Text fields of
\* another name are skipped, a Text field named field_name is parsed and
\* pushed, the first one that does not parse returns TypeError
RECURSIVE Vec_T_get_from(_, _, _, _, _)
Vec_T_get_from(fl, i, field_name, T, matches) ==
    IF i > Len(fl) THEN Ok(matches)
    ELSE IF fl[i].kind = "File" THEN Vec_T_get_from(fl, i + 1, field_name, T, matches)
    ELSE IF fl[i].name = field_name
         THEN LET y == Parse(T, fl[i].text) IN
              IF y.ok THEN Vec_T_get_from(fl, i + 1, field_name, T, Append(matches, y.val))
              ELSE Err(TypeError(field_name, T))
         ELSE Vec_T_get_from(fl, i + 1, field_name, T, matches)

\* the matches in reverse order
Vec_T_get_Rev(fl, field_name, T) ==
    LET r == Vec_T_get_from(fl, 1, field_name, T, <<>>) IN
    IF r.tag = "Ok"
    THEN Ok([i \in 1..Len(r.val) |-> r.val[Len(r.val) + 1 - i]])
    ELSE r

\* the matches that parse, those that do not being skipped
Vec_T_get_SkipBad(fl, field_name, T) ==
    Vec_T_get_from(SelectSeq(fl, LAMBDA f : f.kind = "File" \/ Parse(T, f.text).ok),
                   1, field_name, T, <<>>)

\* <Vec<T> as MultipartTypeSpecial>::get
Vec_T_get(fl, field_name, T) == Vec_T_get_from(fl, 1, field_name, T, <<>>)

\* any number of matches above zero yields the last one
T_get_Lax(fl, field_name, T) ==
    LET matches == Vec_T_get(fl, field_name, T) IN
    IF matches.tag = "Err" THEN matches
    ELSE IF Len(matches.val) = 0 THEN Err(NotFound(field_name))
    ELSE Ok(matches.val[Len(matches.val)])

\* <T as MultipartType>::get
T_get(fl, field_name, T) ==
    LET matches == Vec_T_get(fl, field_name, T) IN
    IF matches.tag = "Err" THEN matches
    ELSE IF Len(matches.val) = 0 THEN Err(NotFound(field_name))
    ELSE IF Len(matches.val) = 1 THEN Ok(matches.val[Len(matches.val)])
    ELSE Err(DuplicateField(field_name))

\* <Option<T> as MultipartTypeSpecial>::get
Option_T_get(fl, field_name, T) ==
    LET matches == Vec_T_get(fl, field_name, T) IN
    IF matches.tag = "Err" THEN matches
    ELSE IF Len(matches.val) = 0 THEN Ok(NoneOpt)
    ELSE IF Len(matches.val) = 1 THEN Ok(Some(matches.val[Len(matches.val)]))
    ELSE Err(DuplicateField(field_name))

\* the list is left as it is
RemoveAt_Keep(fl, idx) == fl

\* Vec::swap_remove(idx): the last element takes the place of the removed one
RemoveAt_Swap(fl, idx) ==
    [i \in 1..(Len(fl) - 1) |-> IF i = idx THEN fl[Len(fl)] ELSE fl[i]]

\* Vec::remove(idx): the list without its element at idx (1-based here)
RemoveAt(fl, idx) ==
    [i \in 1..(Len(fl) - 1) |-> IF i < idx THEN fl[i] ELSE fl[i + 1]]

\* variant: the first loop collects every field named field_name
RECURSIVE FileIndexes_AnyKind(_, _, _, _)
FileIndexes_AnyKind(fl, i, field_name, indexes) ==
    IF i > Len(fl) THEN indexes
    ELSE IF fl[i].name = field_name
         THEN FileIndexes_AnyKind(fl, i + 1, field_name, Append(indexes, i))
         ELSE FileIndexes_AnyKind(fl, i + 1, field_name, indexes)

\* Vec<MultipartFile>::get, first loop from field i on: the indexes of the
\* File fields named field_name, ascending
RECURSIVE FileIndexes(_, _, _, _)
FileIndexes(fl, i, field_name, indexes) ==
    IF i > Len(fl) THEN indexes
    ELSE IF fl[i].kind = "File" /\ fl[i].name = field_name
         THEN FileIndexes(fl, i + 1, field_name, Append(indexes, i))
         ELSE FileIndexes(fl, i + 1, field_name, indexes)

\* variant: the entries are removed from the lowest index up
RECURSIVE RemoveRev_Forward(_, _, _)
RemoveRev_Forward(fl, indexes, out) ==
    IF indexes = <<>> THEN [ret |-> Ok(out), form |-> fl, dropped |-> <<>>]
    ELSE LET idx == indexes[1] IN
         IF idx > Len(fl) THEN [ret |-> Panic, form |-> fl, dropped |-> out]
         ELSE IF fl[idx].kind = "Text"
              THEN [ret |-> Panic, form |-> RemoveAt(fl, idx), dropped |-> out]
              ELSE RemoveRev_Forward(RemoveAt(fl, idx), Tail(indexes),
                                     Append(out, fl[idx]))

\* Vec<MultipartFile>::get, indexes.iter().rev().map(form.remove).collect():
\* the entries are removed from the highest index down and collected in
\* that order; removing a Text field, or past the end, panics
RECURSIVE RemoveRev(_, _, _)
RemoveRev(fl, indexes, out) ==
    IF indexes = <<>> THEN [ret |-> Ok(out), form |-> fl, dropped |-> <<>>]
    ELSE LET idx == indexes[Len(indexes)] IN
         IF idx > Len(fl) THEN [ret |-> Panic, form |-> fl, dropped |-> out]
         ELSE IF fl[idx].kind = "Text"
              THEN [ret |-> Panic, form |-> RemoveAt(fl, idx), dropped |-> out]
              ELSE RemoveRev(RemoveAt(fl, idx),
                             SubSeq(indexes, 1, Len(indexes) - 1),
                             Append(out, fl[idx]))

\* <Vec<MultipartFile> as MultipartTypeSpecial>::get: the result, the list
\* after the call, and the files dropped inside the call
Vec_MultipartFile_get(fl, field_name) ==
    RemoveRev(fl, FileIndexes(fl, 1, field_name, <<>>), <<>>)

\* <MultipartFile as MultipartType>::get
MultipartFile_get(fl, field_name) ==
    LET r == Vec_MultipartFile_get(fl, field_name) IN
    IF r.ret.tag # "Ok" THEN r
    ELSE LET matches == r.ret.val IN
         IF Len(matches) = 0
         THEN [ret |-> Err(NotFound(field_name)), form |-> r.form, dropped |-> <<>>]
         ELSE IF Len(matches) = 1
         THEN [ret |-> Ok(matches[Len(matches)]), form |-> r.form, dropped |-> <<>>]
         ELSE [ret |-> Err(DuplicateField(field_name)), form |-> r.form,
               dropped |-> matches]

\* <Option<MultipartFile> as MultipartTypeSpecial>::get
Option_MultipartFile_get(fl, field_name) ==
    LET r == Vec_MultipartFile_get(fl, field_name) IN
    IF r.ret.tag # "Ok" THEN r
    ELSE LET matches == r.ret.val IN
         IF Len(matches) = 0
         THEN [ret |-> Ok(NoneOpt), form |-> r.form, dropped |-> <<>>]
         ELSE IF Len(matches) = 1
         THEN [ret |-> Ok(Some(matches[Len(matches)])), form |-> r.form,
               dropped |-> <<>>]
         ELSE [ret |-> Err(DuplicateField(field_name)), form |-> r.form,
               dropped |-> matches]

-----------------------------------------------------------------------------
(* The lists a caller can hold, and the calls *)

\* what a field of the list can be, before its temp file is assigned
FieldShapes ==
    [kind : {"Text"}, name : GetNames, text : Texts]
        \cup [kind : {"File"}, name : GetNames, text : {<<>>}]

\* the number of File shapes among the first i
FileRank(shapes, i) == Cardinality({j \in 1..i : shapes[j].kind = "File"})

\* the list load_parts builds from parts of these shapes: the k-th file part
\* was written to the k-th temp file
FormOf(shapes) ==
    [i \in DOMAIN shapes |->
        IF shapes[i].kind = "Text"
        THEN TextField(shapes[i].name, shapes[i].text)
        ELSE FileField(FileRank(shapes, i), 0, shapes[i].name, None,
                       APPLICATION_OCTET_STREAM)]

\* the lists load_parts can return, up to MaxFormLen fields
Forms ==
    UNION {{FormOf(shapes) : shapes \in [1..n -> FieldShapes]} : n \in 0..MaxFormLen}

\* load_parts has returned Ok(form): the task is over, the temp files of the
\* File fields exist, and no call has been made on the list yet
InitForm ==
    /\ config = [text_limit |-> TextLimit, file_limit |-> FileLimit,
                 max_parts |-> MaxPartsCfg]
    /\ pc = "returned"
    /\ parts = <<>>
    /\ text_budget = config.text_limit
    /\ file_budget = config.file_limit
    /\ cur = NoCur
    /\ written = 0
    /\ budget = 0
    /\ acc = <<>>
    /\ ntf = 0
    /\ holder = "none"
    /\ inflight = <<>>
    /\ form \in Forms
    /\ files = [k \in 1..Cardinality({i \in DOMAIN form : form[i].kind = "File"}) |->
                   [content |-> <<>>, exists |-> TRUE]]
    /\ result = [kind |-> "Ok", err |-> None]
    /\ wire = <<>>
    /\ fault = "none"
    /\ op = NoOp
    /\ ret = NoRet
    /\ handed = <<>>
    /\ first = NoFirst(FALSE)
    /\ calls = <<>>
    /\ req = NoReq

\* the history of text calls after the call c returned r, the call before
\* it being `last`
Record(h, last, c, r) ==
    IF ~h.on THEN h
    ELSE IF h.op = NoOp THEN [on |-> TRUE, op |-> c, ret |-> r, again |-> FALSE]
    ELSE IF c = h.op /\ last # h.op THEN [h EXCEPT !.again = TRUE]
    ELSE h

\* a text get that also removes the fields it matched
TextCall_Consuming(fn, field_name, T, r) ==
    /\ result.kind = "Ok"
    /\ op' = [fn |-> fn, name |-> field_name, ty |-> T]
    /\ ret' = r
    /\ form' = SelectSeq(form, LAMBDA f : ~(f.kind = "Text" /\ f.name = field_name))
    /\ first' = Record(first, op, [fn |-> fn, name |-> field_name, ty |-> T], r)
    /\ UNCHANGED <<loadvars, handed, calls, req>>

\* what a text get leaves behind: the loop `for i in form` only reads the
\* list, nothing is removed and nothing is dropped
TextCall(fn, field_name, T, r) ==
    /\ result.kind = "Ok"
    /\ op' = [fn |-> fn, name |-> field_name, ty |-> T]
    /\ ret' = r
    /\ form' = form
    /\ first' = Record(first, op, [fn |-> fn, name |-> field_name, ty |-> T], r)
    /\ UNCHANGED <<loadvars, handed, calls, req>>

\* let v: T = MultipartType::get(&mut form, field_name)
get_T(field_name, T) == TextCall("T", field_name, T, T_get(form, field_name, T))

\* let v: Option<T> = MultipartTypeSpecial::get(&mut form, field_name)
get_Option_T(field_name, T) ==
    TextCall("Option<T>", field_name, T, Option_T_get(form, field_name, T))

\* let v: Vec<T> = MultipartTypeSpecial::get(&mut form, field_name)
get_Vec_T(field_name, T) ==
    TextCall("Vec<T>", field_name, T, Vec_T_get(form, field_name, T))

\* what a file get leaves behind: the list without the removed entries, the
\* returned files in the caller's hands, the dropped ones deleted
FileCall(fn, field_name, r, given) ==
    /\ result.kind = "Ok"
    /\ op' = [fn |-> fn, name |-> field_name, ty |-> "MultipartFile"]
    /\ ret' = r.ret
    /\ form' = r.form
    /\ handed' = handed \o given
    /\ files' = DropAll(files, r.dropped)
    /\ UNCHANGED <<config, pc, parts, text_budget, file_budget, cur, written,
                   budget, acc, ntf, holder, inflight, result, wire, fault,
                   first, calls, req>>

\* let f: MultipartFile = MultipartType::get(&mut form, field_name)
get_MultipartFile(field_name) ==
    LET r == MultipartFile_get(form, field_name) IN
    FileCall("MultipartFile", field_name, r,
             IF r.ret.tag = "Ok" THEN <<r.ret.val>> ELSE <<>>)

\* let f: Option<MultipartFile> = MultipartTypeSpecial::get(&mut form, field_name)
get_Option_MultipartFile(field_name) ==
    LET r == Option_MultipartFile_get(form, field_name) IN
    FileCall("Option<MultipartFile>", field_name, r,
             IF r.ret.tag = "Ok" /\ r.ret.val # NoneOpt THEN <<r.ret.val[2]>> ELSE <<>>)

\* let f: Vec<MultipartFile> = MultipartTypeSpecial::get(&mut form, field_name)
get_Vec_MultipartFile(field_name) ==
    LET r == Vec_MultipartFile_get(form, field_name) IN
    FileCall("Vec<MultipartFile>", field_name, r,
             IF r.ret.tag = "Ok" THEN r.ret.val ELSE <<>>)

NextGet ==
    \/ \E n \in GetNames, T \in Types : get_T(n, T)
    \/ \E n \in GetNames, T \in Types : get_Option_T(n, T)
    \/ \E n \in GetNames, T \in Types : get_Vec_T(n, T)
    \/ \E n \in GetNames : get_MultipartFile(n)
    \/ \E n \in GetNames : get_Option_MultipartFile(n)
    \/ \E n \in GetNames : get_Vec_MultipartFile(n)

SpecGet == InitForm /\ [][NextGet]_vars

\* the same lists, the first text call recorded
InitText ==
    /\ config = [text_limit |-> TextLimit, file_limit |-> FileLimit,
                 max_parts |-> MaxPartsCfg]
    /\ pc = "returned"
    /\ parts = <<>>
    /\ text_budget = config.text_limit
    /\ file_budget = config.file_limit
    /\ cur = NoCur
    /\ written = 0
    /\ budget = 0
    /\ acc = <<>>
    /\ ntf = 0
    /\ holder = "none"
    /\ inflight = <<>>
    /\ form \in Forms
    /\ files = [k \in 1..Cardinality({i \in DOMAIN form : form[i].kind = "File"}) |->
                   [content |-> <<>>, exists |-> TRUE]]
    /\ result = [kind |-> "Ok", err |-> None]
    /\ wire = <<>>
    /\ fault = "none"
    /\ op = NoOp
    /\ ret = NoRet
    /\ handed = <<>>
    /\ first = NoFirst(TRUE)
    /\ calls = <<>>
    /\ req = NoReq

\* a caller that makes text calls only
NextText ==
    \/ \E n \in GetNames, T \in Types : get_T(n, T)
    \/ \E n \in GetNames, T \in Types : get_Option_T(n, T)
    \/ \E n \in GetNames, T \in Types : get_Vec_T(n, T)

SpecText == InitText /\ [][NextText]_vars

-----------------------------------------------------------------------------
(* What a call found in the list, read off the list before the call *)

\* the text variants and the file variants of get
TextFns == {"T", "Option<T>", "Vec<T>"}
FileFns == {"MultipartFile", "Option<MultipartFile>", "Vec<MultipartFile>"}

\* the Text fields named n, in list order
TextsNamed(fl, n) == SelectSeq(fl, LAMBDA f : f.kind = "Text" /\ f.name = n)

\* the File fields named n, in list order
FilesNamed(fl, n) == SelectSeq(fl, LAMBDA f : f.kind = "File" /\ f.name = n)

\* every entry that is not a File field named n, in list order
Others(fl, n) == SelectSeq(fl, LAMBDA f : ~(f.kind = "File" /\ f.name = n))

\* the text is a decimal numeral: it reads as an i32
IsNumeral(text) == text # <<>> /\ \A i \in DOMAIN text : text[i] \in 48..57

\* the text reads as a T
Reads(T, text) == T = "alloc::string::String" \/ IsNumeral(text)

\* every field of the list reads as a T
AllRead(list, T) == \A i \in DOMAIN list : Reads(T, list[i].text)

\* the values of the fields of the list, read as T
Values(list, T) == [i \in DOMAIN list |-> Parse(T, list[i].text).val]

\* no entry occurs twice
NoRepeat(list) == \A i, j \in DOMAIN list : i # j => list[i] # list[j]

-----------------------------------------------------------------------------
(* C11: a scalar text get whose matching Text fields all parse returns     *)
(* NotFound for zero fields named n, the parsed value for exactly one and  *)
(* DuplicateField for more than one; the Option get returns the same but   *)
(* None for zero matches (and Some of the value for one).                  *)
C11_TextCardinality ==
    [][LET n == op'.name
           T == op'.ty
           m == TextsNamed(form, n)
       IN  (op'.fn \in {"T", "Option<T>"} /\ AllRead(m, T)) =>
             /\ Len(m) = 0 =>
                  ret' = IF op'.fn = "T" THEN Err(NotFound(n)) ELSE Ok(NoneOpt)
             /\ Len(m) = 1 =>
                  ret' = IF op'.fn = "T" THEN Ok(Values(m, T)[1])
                         ELSE Ok(Some(Values(m, T)[1]))
             /\ Len(m) > 1 => ret' = Err(DuplicateField(n))]_vars

\* an Option<i32> get found the one field "69" among fields of other kinds
\* and names, and returned Some(69)
C11_Witness ==
    /\ op.fn = "Option<T>" /\ op.ty = "i32"
    /\ ret = Ok(Some(69))
    /\ Len(TextsNamed(form, op.name)) = 1
    /\ Len(form) = MaxFormLen

-----------------------------------------------------------------------------
(* C12: the Vec<T> text get returns the parsed values of all Text fields   *)
(* named n in list order, the empty vector when none match, and fails only *)
(* with TypeError, never because of the number of matches.                 *)
C12_VecTextInOrder ==
    [][LET n == op'.name
           T == op'.ty
           m == TextsNamed(form, n)
       IN  op'.fn = "Vec<T>" =>
             /\ AllRead(m, T) => ret' = Ok(Values(m, T))
             /\ ret'.tag = "Err" => ret'.err.kind = "TypeError"]_vars

\* a Vec<String> get returned two different texts
C12_Witness ==
    /\ op.fn = "Vec<T>" /\ op.ty = "alloc::string::String"
    /\ ret.tag = "Ok"
    /\ Len(ret.val) = 2
    /\ ret.val[1] # ret.val[2]

-----------------------------------------------------------------------------
(* C13: the Vec<MultipartFile> get returns all File fields named n in      *)
(* their list order, for any number of matches.                            *)
C13_VecFileInOrder ==
    [][op'.fn = "Vec<MultipartFile>" =>
         ret' = Ok(FilesNamed(form, op'.name))]_vars

-----------------------------------------------------------------------------
(* C14: after a successful file extraction for n the list holds no File    *)
(* field named n; no File field is handed to callers twice; and an         *)
(* Option<MultipartFile> get for n that follows a successful file          *)
(* extraction for n returns None.                                          *)
C14_FileHandedOnce ==
    [][/\ (op'.fn \in FileFns /\ ret'.tag = "Ok") =>
             FilesNamed(form', op'.name) = <<>>
       /\ NoRepeat(handed')
       /\ (/\ op.fn \in FileFns /\ ret.tag = "Ok"
           /\ op'.fn = "Option<MultipartFile>" /\ op'.name = op.name)
          => ret' = Ok(NoneOpt)]_vars

\* a second Option<MultipartFile> get for a name whose file is already in a
\* caller's hands returned None
C14_Witness ==
    /\ op.fn = "Option<MultipartFile>"
    /\ ret = Ok(NoneOpt)
    /\ \E i \in DOMAIN handed : handed[i].name = op.name

-----------------------------------------------------------------------------
(* C15: a file extraction for n leaves every other entry of the list (the  *)
(* Text fields and the File fields of another name) in the list, unchanged *)
(* and in the same order.                                                  *)
C15_FileFrame ==
    [][op'.fn \in FileFns =>
         /\ Others(form', op'.name) = Others(form, op'.name)
         /\ \A i \in DOMAIN form' : \E j \in DOMAIN form : form'[i] = form[j]]_vars

\* a file was extracted from the head of a list and two different entries
\* remain behind it
C15_Witness ==
    /\ op.fn \in FileFns
    /\ ret.tag = "Ok"
    /\ Len(handed) = 1
    /\ Len(form) = 2
    /\ form[1] # form[2]
    /\ form = Others(form, op.name)

-----------------------------------------------------------------------------
(* C16: a text extraction never changes the list, whether it succeeds or   *)
(* fails; a text call repeated later on the same list, whatever text calls *)
(* were made in between, returns what it returned the first time.          *)
C16_TextFrame ==
    [][op'.fn \in TextFns =>
         /\ form' = form
         /\ (first.op = op') => ret' = first.ret]_vars

\* a failing first call was made again after a different text call, on a
\* list that holds a Text field of its name, and failed the same way
C16_Witness ==
    /\ first.again
    /\ op = first.op
    /\ ret = first.ret
    /\ ret.tag = "Err"
    /\ TextsNamed(form, op.name) # <<>>

-----------------------------------------------------------------------------
(* C17: in every text variant, if a Text field named n does not parse into *)
(* T the result is TypeError(n, type name of T), however many fields       *)
(* match; and a TypeError is returned only then: Text fields of another    *)
(* name are not parsed.                                                    *)
C17_TypeErrorFirst ==
    [][LET n == op'.name
           T == op'.ty
           m == TextsNamed(form, n)
       IN  op'.fn \in TextFns =>
             /\ ~AllRead(m, T) => ret' = Err(TypeError(n, T))
             /\ AllRead(m, T) => ret'.err.kind # "TypeError"]_vars

\* a scalar i32 get met two fields of its name, one of them unparsable, in
\* a list that holds a field of another name too, and returned TypeError
C17_Witness ==
    /\ op.fn = "T" /\ op.ty = "i32"
    /\ ret = Err(TypeError(op.name, "i32"))
    /\ Len(TextsNamed(form, op.name)) = 2
    /\ \E i \in DOMAIN form : form[i].kind = "Text" /\ form[i].name = op.name
                                /\ IsNumeral(form[i].text)
    /\ Len(form) = 3

-----------------------------------------------------------------------------
(***************************************************************************)
(* The struct binder (actix-validated-forms-derive/src/lib.rs): the        *)
(* try_from that derive(FromMultipart) generates for a struct with named   *)
(* fields.  A struct declaration is the sequence of its fields, each a     *)
(* name and a type; the generated body is one MultipartType::get per       *)
(* field, in that order, each followed by map_err and `?`.                 *)
(***************************************************************************)

\* the field types MultipartType is implemented for: FromStr types and
\* MultipartFile
FieldTypes == Types \cup {"MultipartFile"}

\* the struct declarations: named fields, no name twice
Decls ==
    UNION {{d \in [1..n -> [name : GetNames, ty : FieldTypes]] :
               \A i, j \in 1..n : i # j => d[i].name # d[j].name}
           : n \in 0..Cardinality(GetNames)}

\* MultipartType::get(form, stringify!(name)) for a field of type ty: the
\* result, the list after the call and the files dropped inside the call
MultipartType_get(fl, name, ty) ==
    IF ty = "MultipartFile" THEN MultipartFile_get(fl, name)
    ELSE [ret |-> T_get(fl, name, ty), form |-> fl, dropped |-> <<>>]

\* the values of a partly built record that are files
FilesIn(x) ==
    LET fs == SelectSeq(x, LAMBDA b : b.ty = "MultipartFile") IN
    [i \in DOMAIN fs |-> fs[i].val]

\* the body of the generated try_from from field i on: `x` holds the fields
\* built so far, `made` the names passed to get.  A failing get returns
\* early with (name, e); the values built so far are dropped
RECURSIVE try_from_fields(_, _, _, _, _)
try_from_fields(fl, decl, i, x, made) ==
    IF i > Len(decl)
    THEN [ret |-> Ok(x), form |-> fl, calls |-> made, dropped |-> <<>>]
    ELSE LET name == decl[i].name
             r == MultipartType_get(fl, name, decl[i].ty)
         IN  IF r.ret.tag = "Err"
             THEN [ret |-> Err(<<name, r.ret.err>>), form |-> r.form,
                   calls |-> Append(made, name),
                   dropped |-> r.dropped \o FilesIn(x)]
             ELSE IF r.ret.tag = "Panic"
             THEN [ret |-> Panic, form |-> r.form, calls |-> Append(made, name),
                   dropped |-> r.dropped \o FilesIn(x)]
             ELSE try_from_fields(r.form, decl, i + 1,
                                  Append(x, [name |-> name, ty |-> decl[i].ty,
                                             val |-> r.ret.val]),
                                  Append(made, name))

\* the fields taken last to first
try_from_Rev(fl, decl) ==
    try_from_fields(fl, [i \in DOMAIN decl |-> decl[Len(decl) + 1 - i]], 1, <<>>, <<>>)

\* <Self as TryFrom<MultipartForm>>::try_from(value)
try_from(fl, decl) == try_from_fields(fl, decl, 1, <<>>, <<>>)

\* let result = Self::try_from(form): the list is moved into the call and
\* what is left of it is dropped when the call returns
bind(decl) ==
    LET r == try_from(form, decl) IN
    /\ result.kind = "Ok"
    /\ op = NoOp
    /\ op' = [fn |-> "try_from", name |-> "Self", ty |-> decl]
    /\ ret' = r.ret
    /\ calls' = r.calls
    /\ form' = <<>>
    /\ handed' = IF r.ret.tag = "Ok" THEN handed \o FilesIn(r.ret.val) ELSE handed
    /\ files' = DropAll(files, r.form \o r.dropped)
    /\ UNCHANGED <<config, pc, parts, text_budget, file_budget, cur, written,
                   budget, acc, ntf, holder, inflight, result, wire, fault,
                   first, req>>

NextBind == \E decl \in Decls : bind(decl)

SpecBind == InitForm /\ [][NextBind]_vars

\* what get returns for field i of the declaration on the list as it was
\* handed to try_from (the fields have different names, so no earlier get
\* of the same call took anything this one looks for)
FieldResult(fl, decl, i) == MultipartType_get(fl, decl[i].name, decl[i].ty).ret

-----------------------------------------------------------------------------
(* C18: the generated try_from extracts the declared fields in declaration *)
(* order; if an extraction fails, the result is the pair of the first      *)
(* failing field's name and its GetError and no later field is extracted;  *)
(* a record is returned only when every field's extraction succeeded, and  *)
(* it holds every field's value.                                           *)
C18_FirstFailureAborts ==
    [][op'.fn = "try_from" =>
         LET decl == op'.ty
             failing == {i \in DOMAIN decl : FieldResult(form, decl, i).tag = "Err"}
         IN  IF failing = {}
             THEN /\ ret'.tag = "Ok"
                  /\ Len(ret'.val) = Len(decl)
                  /\ \A i \in DOMAIN decl :
                        /\ ret'.val[i].name = decl[i].name
                        /\ ret'.val[i].val = FieldResult(form, decl, i).val
                  /\ calls' = [i \in DOMAIN decl |-> decl[i].name]
             ELSE LET k == CHOOSE i \in failing : \A j \in failing : i <= j IN
                  /\ ret' = Err(<<decl[k].name, FieldResult(form, decl, k).err>>)
                  /\ calls' = [i \in 1..k |-> decl[i].name]]_vars

\* a struct of two fields was bound, the get of the first field failed with
\* NotFound and the second field was never asked for
C18_Witness ==
    /\ op.fn = "try_from"
    /\ Len(op.ty) = 2
    /\ ret = Err(<<op.ty[1].name, NotFound(op.ty[1].name)>>)
    /\ calls = <<op.ty[1].name>>

-----------------------------------------------------------------------------
(* UTF-8 as an encoding of characters, for the texts the payload can carry *)

\* the characters whose encodings are made of the bytes in Bytes: U+00E9
Scalars == {233}

\* the UTF-8 encoding of a character below U+0800
Encode(cp) ==
    IF cp < 128 THEN <<cp>> ELSE <<192 + (cp \div 64), 128 + (cp % 64)>>

\* the UTF-8 encoding of a string of characters
RECURSIVE EncodeAll(_)
EncodeAll(cps) ==
    IF cps = <<>> THEN <<>> ELSE Encode(cps[1]) \o EncodeAll(Tail(cps))

\* the bytes are the encoding of some string
IsUtf8(s) == \E cps \in SeqsUpTo(Scalars, Len(s)) : EncodeAll(cps) = s

\* the step is create_text seeing the end of the part's chunk stream
TextEndStep == pc = "text_next" /\ wire' = wire /\ fault' = fault /\ pc' # pc

-----------------------------------------------------------------------------
(* C19: when a text part ends and its concatenated chunks are the UTF-8    *)
(* encoding of a string, the part becomes a Text field whose text is       *)
(* exactly those bytes, wherever the chunk boundaries fell; when they are  *)
(* not, load_parts returns the UTF-8 error and no field is added; no Text  *)
(* field ever holds anything but the valid bytes of its part.              *)
C19_Utf8RoundTrip ==
    [][/\ TextEndStep =>
            IF IsUtf8(WireBytes(LastPart))
            THEN /\ parts' = Append(parts, TextField(LastPart.hdr.name,
                                                     WireBytes(LastPart)))
                 /\ result' = result
            ELSE /\ result' = [kind |-> "Err", err |-> "Parse(Utf8)"]
                 /\ parts' = parts
       /\ \A i \in DOMAIN parts' :
            parts'[i].kind = "Text" =>
               /\ parts'[i].text = WireBytes(wire'[i])
               /\ IsUtf8(parts'[i].text)]_vars

\* a two-byte character arrived split over two chunks and was decoded into
\* the text of a field
C19_Witness ==
    /\ parts # <<>>
    /\ parts[1].kind = "Text"
    /\ wire[1].chunks = << <<195>>, <<169>> >>
    /\ parts[1].text = Encode(233)

-----------------------------------------------------------------------------
(***************************************************************************)
(* The validated extractors (query.rs, form.rs, multipart/extractor.rs):   *)
(* one run of from_request for a target struct with one field `a: i32`    *)
(* that carries #[validate(range(min = 1, max = 100))].  ValidatedQuery    *)
(* resolves at once; ValidatedForm and ValidatedMultipartForm return a     *)
(* future that resolves when the body has been read.                       *)
(***************************************************************************)

\* most values the payload carries for the field
MaxValues == 2

\* the bounds of the range validation of the field
RangeMin == 1
RangeMax == 100

\* <T as Validate>::validate(): Ok iff the field is within its range
validate(v) == RangeMin <= v /\ v <= RangeMax

\* the raw values a payload can carry for the field: "x", "0", "69", "101"
Raws == {<<120>>, <<48>>, <<54, 57>>, <<49, 48, 49>>}

\* the payloads: the values given for the field `a`, in order
Payloads == SeqsUpTo(Raws, MaxValues)

\* how the UrlEncoded future can fail before the body is parsed
UrlencodedErrors == {"Overflow", "ContentType"}

\* errors load_parts returns: its own, the error of a part's chunk stream
\* (`chunk?`), and Incomplete for a write the pool cancelled.  An error of
\* the part stream is not among them: the loop ends on it and Ok is returned
LoadErrors ==
    {"Payload(Overflow)", "Parse(Utf8)", "Parse(Header)", "Payload(Io)"}
        \cup StreamErrors

Extractors == {"ValidatedQuery", "ValidatedForm", "ValidatedMultipartForm"}

\* ValidatedFormError::Deserialization(cause)
Deserialization(cause) == [kind |-> "Deserialization", cause |-> cause]

\* ValidatedFormError::Validation(errors)
Validation(errors) == [kind |-> "Validation", cause |-> errors]

\* serde_urlencoded::from_str::<T>, from pair i on: a second value for the
\* field is a duplicate, a value that is no i32 fails, and the field must
\* be there at the end
RECURSIVE from_str_from(_, _, _)
from_str_from(values, i, got) ==
    IF i > Len(values)
    THEN IF got = <<>> THEN Err("missing field") ELSE Ok(got[1])
    ELSE IF got # <<>> THEN Err("duplicate field")
    ELSE LET y == ParseI32(values[i]) IN
         IF y.ok THEN from_str_from(values, i + 1, <<y.val>>)
         ELSE Err("invalid digit")

\* serde_urlencoded::from_str::<T>(query string or form body)
from_str(values) == from_str_from(values, 1, <<>>)

\* the list load_parts returns for a multipart body with these values
MultipartsOf(values) == [i \in DOMAIN values |-> TextField("a", values[i])]

\* T::try_from(item) of a struct whose one field is read with
\* MultipartType::get(&mut item, "a")
T_try_from(item) == T_get(item, "a", "i32")

\* the value is wrapped without validate() being called
and_then_validate_Skip(d) ==
    IF d.tag = "Err"
    THEN [res |-> Err(Deserialization(d.err)), validated |-> <<>>]
    ELSE [res |-> Ok(d.val), validated |-> <<>>]

\* what follows the decode in all three extractors: a decode error becomes
\* Deserialization and validate() is not called; a decoded value is
\* validated and either kept or replaced by Validation
and_then_validate(d) ==
    IF d.tag = "Err"
    THEN [res |-> Err(Deserialization(d.err)), validated |-> <<>>]
    ELSE IF validate(d.val)
         THEN [res |-> Ok(d.val), validated |-> <<d.val>>]
         ELSE [res |-> Err(Validation("range")), validated |-> <<d.val>>]

\* the error is always converted with From, a configured handler is ignored
Respond_NoHandler(res, handler) ==
    IF res.tag = "Ok" THEN [tag |-> "Ok", val |-> res.val, err |-> NoErr, by |-> "none"]
    ELSE [tag |-> "Err", val |-> <<>>, err |-> res.err, by |-> "into"]

\* map / map_ok wraps the value, map_err / unwrap_or_else turns the error
\* into an actix_web::Error: through config.error_handler when there is
\* one, through From (ResponseError) otherwise
Respond(res, handler) ==
    IF res.tag = "Ok" THEN [tag |-> "Ok", val |-> res.val, err |-> NoErr, by |-> "none"]
    ELSE [tag |-> "Err", val |-> <<>>, err |-> res.err,
          by |-> IF handler THEN "error_handler" ELSE "into"]

\* from_request has not been called yet
NewReq(extractor, handler, payload) ==
    [extractor |-> extractor, stage |-> "new", handler |-> handler,
     payload |-> payload, fault |-> "none", decoded |-> NoRet,
     validated |-> <<>>, handled |-> <<>>, out |-> NoRet]

\* a request for a route with a validated extractor is about to be served
InitReq ==
    /\ config = [text_limit |-> TextLimit, file_limit |-> FileLimit,
                 max_parts |-> MaxPartsCfg]
    /\ pc = "try_next"
    /\ parts = <<>>
    /\ text_budget = config.text_limit
    /\ file_budget = config.file_limit
    /\ cur = NoCur
    /\ written = 0
    /\ budget = 0
    /\ acc = <<>>
    /\ ntf = 0
    /\ holder = "none"
    /\ inflight = <<>>
    /\ files = <<>>
    /\ result = [kind |-> "none", err |-> None]
    /\ wire = <<>>
    /\ fault = "none"
    /\ form = <<>>
    /\ op = NoOp
    /\ ret = NoRet
    /\ handed = <<>>
    /\ first = NoFirst(FALSE)
    /\ calls = <<>>
    /\ \E e \in Extractors, h \in BOOLEAN, p \in Payloads : req = NewReq(e, h, p)

\* the future resolves: decoded value or error, validation, response;
\* `handled` lists the errors config.error_handler was called with
Resolve(d, e) ==
    LET r == and_then_validate(d)
        out == Respond(r.res, req.handler)
    IN  req' = [req EXCEPT !.stage = "done", !.fault = e, !.decoded = d,
                           !.validated = r.validated,
                           !.handled = IF out.by = "error_handler"
                                       THEN <<r.res.err>> ELSE <<>>,
                           !.out = out]

\* ValidatedQuery::from_request: a Ready future, all in one go
query_from_request ==
    /\ req.extractor = "ValidatedQuery"
    /\ req.stage = "new"
    /\ Resolve(from_str(req.payload), "none")
    /\ UNCHANGED <<loadvars, form, op, ret, handed, first, calls>>

\* ValidatedForm::from_request: UrlEncoded::new(req, payload) is returned
\* as a future that reads the body
form_from_request ==
    /\ req.extractor = "ValidatedForm"
    /\ req.stage = "new"
    /\ req' = [req EXCEPT !.stage = "pending"]
    /\ UNCHANGED <<loadvars, form, op, ret, handed, first, calls>>

\* the UrlEncoded future resolves: with an error of its own (e), or with
\* what the body decodes to
form_ready(e) ==
    /\ req.extractor = "ValidatedForm"
    /\ req.stage = "pending"
    /\ Resolve(IF e = "none" THEN from_str(req.payload) ELSE Err(e), e)
    /\ UNCHANGED <<loadvars, form, op, ret, handed, first, calls>>

\* ValidatedMultipartForm::from_request: load_parts(x, config) is returned
\* as a future that reads the body
multipart_from_request ==
    /\ req.extractor = "ValidatedMultipartForm"
    /\ req.stage = "new"
    /\ req' = [req EXCEPT !.stage = "pending"]
    /\ UNCHANGED <<loadvars, form, op, ret, handed, first, calls>>

\* the load_parts future resolves: with Err(e), or with Ok(item), which is
\* bound with T::try_from
multipart_ready(e) ==
    /\ req.extractor = "ValidatedMultipartForm"
    /\ req.stage = "pending"
    /\ Resolve(IF e = "none" THEN T_try_from(MultipartsOf(req.payload)) ELSE Err(e), e)
    /\ UNCHANGED <<loadvars, form, op, ret, handed, first, calls>>

NextReq ==
    \/ query_from_request
    \/ form_from_request
    \/ \E e \in UrlencodedErrors \cup {"none"} : form_ready(e)
    \/ multipart_from_request
    \/ \E e \in LoadErrors \cup {"none"} : multipart_ready(e)

SpecReq == InitReq /\ [][NextReq]_vars

\* the payload carries exactly one value for the field and it is a numeral
Decodable(payload) == Len(payload) = 1 /\ IsNumeral(payload[1])

-----------------------------------------------------------------------------
(* C20: an extractor run ends with a wrapped value only if the payload was *)
(* decoded or bound into a value and validate() was then called on that    *)
(* value and passed; when decoding or binding failed validate() was never  *)
(* called and the error is Deserialization; when the value was decoded and *)
(* validate() failed the error is Validation.                              *)
C20_ValidatedOnly ==
    req.stage = "done" =>
        LET decoded == req.fault = "none" /\ Decodable(req.payload) IN
        /\ req.decoded.tag = "Ok" <=> decoded
        /\ req.out.tag = "Ok" =>
              /\ decoded
              /\ req.out.val = req.decoded.val
              /\ req.validated = <<req.out.val>>
              /\ RangeMin <= req.out.val /\ req.out.val <= RangeMax
        /\ ~decoded =>
              /\ req.validated = <<>>
              /\ req.out.tag = "Err"
              /\ req.out.err.kind = "Deserialization"
        /\ (decoded /\ req.out.tag = "Err") =>
              /\ req.validated = <<req.decoded.val>>
              /\ ~(RangeMin <= req.decoded.val /\ req.decoded.val <= RangeMax)
              /\ req.out.err.kind = "Validation"

\* a multipart body with the one value "69" was bound, validated and
\* wrapped
C20_Witness ==
    /\ req.stage = "done"
    /\ req.extractor = "ValidatedMultipartForm"
    /\ req.out.tag = "Ok"
    /\ req.out.val = 69
    /\ req.validated = <<69>>

-----------------------------------------------------------------------------
(* C21: with an error_handler configured, every failure of an extractor    *)
(* (Deserialization or Validation) is passed to the handler exactly once   *)
(* and what the handler returns is the error of the request; with none     *)
(* configured the failure is converted with From; the handler is never     *)
(* called when the extractor succeeds.                                     *)
C21_HandlerOnFailureOnly ==
    req.stage = "done" =>
        /\ (req.out.tag = "Err" /\ req.handler) =>
              /\ req.out.by = "error_handler"
              /\ req.handled = <<req.out.err>>
              /\ req.out.err.kind \in {"Deserialization", "Validation"}
        /\ (req.out.tag = "Err" /\ ~req.handler) =>
              /\ req.out.by = "into"
              /\ req.handled = <<>>
        /\ req.out.tag = "Ok" =>
              /\ req.out.by = "none"
              /\ req.handled = <<>>

\* a form whose value fails validation was rejected through the configured
\* handler, which was called once, with the Validation error
C21_Witness ==
    /\ req.stage = "done"
    /\ req.extractor = "ValidatedForm"
    /\ req.handler
    /\ req.out.by = "error_handler"
    /\ Len(req.handled) = 1
    /\ req.handled[1].kind = "Validation"

-----------------------------------------------------------------------------
(* The responses of failed requests *)

\* StatusCode::BAD_REQUEST, StatusCode::INTERNAL_SERVER_ERROR
BAD_REQUEST == 400
INTERNAL_SERVER_ERROR == 500

\* <MultipartError as ResponseError>::status_code(): the response of a route
\* that returns load_parts' error with `?`
MultipartError_status(e) == BAD_REQUEST

\* <ValidatedFormError<T> as ResponseError>::status_code(): the impl is
\* empty, so the default of the trait applies
ValidatedFormError_status(e) == INTERNAL_SERVER_ERROR

\* the errors of load_parts that reject the request as malformed or over
\* budget, and the ones that report a temp-file failure of the server
RequestFaults == {"Parse(Header)", "Payload(Overflow)", "Parse(Utf8)"}
ServerFaults == {"Payload(Io)"}

\* the status class of a response
ClientError(status) == 400 <= status /\ status <= 499
ServerError(status) == 500 <= status /\ status <= 599

-----------------------------------------------------------------------------
(* C22: a request rejected as malformed or over budget gets a client-error *)
(* response and a temp-file I/O failure gets a server-error response, both *)
(* for a route that returns load_parts' error and for the                  *)
(* ValidatedMultipartForm extractor without an error handler.              *)
C22_ClientErrorClass ==
    /\ (pc = "returned" /\ result.kind = "Err") =>
          /\ result.err \in RequestFaults =>
                ClientError(MultipartError_status(result.err))
          /\ result.err \in ServerFaults =>
                ServerError(MultipartError_status(result.err))
    /\ (/\ req.stage = "done"
        /\ req.extractor = "ValidatedMultipartForm"
        /\ req.out.tag = "Err" /\ req.out.by = "into") =>
          /\ req.fault \in RequestFaults =>
                ClientError(ValidatedFormError_status(req.out.err))
          /\ req.fault \in ServerFaults =>
                ServerError(ValidatedFormError_status(req.out.err))

-----------------------------------------------------------------------------
(* C23: when a part's chunk stream reports an error (a part abandoned      *)
(* mid-way included) or the dispatched write is cancelled, load_parts      *)
(* returns at once with an error, Incomplete for a cancelled write and the *)
(* stream's error otherwise; the temp file of the part in progress is      *)
(* deleted and no field is added for the part; nothing is pulled or       *)
(* awaited once load_parts has returned.                                   *)
C23_AbortMidPart ==
    [][/\ (fault = "none" /\ fault' \in {"chunk", "cancel"}) =>
         /\ pc' = "returned"
         /\ result'.kind = "Err"
         /\ fault' = "cancel" => result'.err = "Incomplete"
         /\ fault' = "chunk" => result'.err \in StreamErrors
         /\ parts' = parts
         /\ Len(parts') < Len(wire')
         /\ pc \in {"file_next", "file_write"} => ~files'[ntf].exists
       /\ pc # "returned"]_vars

\* the write of a second chunk was cancelled: the temp file, with the first
\* chunk in it, is gone and load_parts returned Incomplete
C23_Witness ==
    /\ fault = "cancel"
    /\ result = [kind |-> "Err", err |-> "Incomplete"]
    /\ files[ntf].content # <<>>
    /\ ~files[ntf].exists

-----------------------------------------------------------------------------
(* C24: one thing at a time.  The temp file is with the worker exactly     *)
(* while a write is awaited, with the task exactly while a file part is    *)
(* read otherwise, and with nobody else; a chunk is pulled only when no    *)
(* write is awaited; a part is pulled only when no part is in progress and *)
(* every earlier part has its field in the list.                           *)
C24_OneAtATime ==
    [][/\ holder' = "worker" <=> pc' = "file_write"
       /\ holder' = "task" <=> pc' = "file_next"
       /\ pc' # "file_write" => inflight' = <<>>
       /\ ChunkStep => (pc \in {"text_next", "file_next"} /\ holder # "worker")
       /\ PartStep => (pc = "try_next" /\ holder = "none"
                        /\ Len(parts) = Len(wire))]_vars

\* a second chunk of a file part was pulled after the write of the first
\* had completed, and its write is now awaited
C24_Witness ==
    /\ pc = "file_write"
    /\ holder = "worker"
    /\ written > 0
    /\ Len(wire[Len(wire)].chunks) = 2

-----------------------------------------------------------------------------
(* C25: the part count is checked before the part's headers are looked at: *)
(* a part that arrives when the list already holds max_parts fields fails  *)
(* the decode with the part-count error whatever its headers are, and none *)
(* of its chunks is pulled: nothing happens after the return.              *)
C25_CountBeforeHeaders ==
    [][/\ (PartStep /\ Len(parts) >= config.max_parts) =>
         /\ result' = [kind |-> "Err", err |-> "Payload(Overflow)"]
         /\ pc' = "returned"
         /\ wire'[Len(wire')].chunks = <<>>
       /\ pc # "returned"]_vars

\* the part over the limit had no usable Content-Disposition and the decode
\* failed with the part-count error all the same
C25_Witness ==
    /\ result = [kind |-> "Err", err |-> "Payload(Overflow)"]
    /\ config.max_parts >= 1
    /\ Len(wire) = config.max_parts + 1
    /\ Len(parts) = config.max_parts
    /\ WireHeaderBad(wire[Len(wire)].hdr)

-----------------------------------------------------------------------------
(* C26: when load_parts has failed, for whatever reason, no temp file      *)
(* created during the decode is left: neither the one of the part in       *)
(* progress, with the bytes already written to it, nor those of the file   *)
(* parts materialized before.                                              *)
C26_FailureLeavesNoFile ==
    result.kind = "Err" => \A i \in DOMAIN files : ~files[i].exists

\* the decode failed in its second file part after bytes of it had been
\* written; its temp file and the one of the first file part are gone
C26_Witness ==
    /\ result.kind = "Err"
    /\ Len(files) = 2
    /\ Len(parts) = 1
    /\ parts[1].kind = "File"
    /\ files[2].content # <<>>
    /\ ~files[1].exists /\ ~files[2].exists

-----------------------------------------------------------------------------
(* C27: a file extraction removes entries only when it succeeds: a scalar  *)
(* or Option file get that fails leaves the list as it was, and a          *)
(* Vec<MultipartFile> get for the same name right after a DuplicateField   *)
(* failure returns the files of that name.                                 *)
C27_RemoveOnlyOnSuccess ==
    [][/\ (op'.fn \in {"MultipartFile", "Option<MultipartFile>"} /\ ret'.tag = "Err")
            => form' = form
       /\ (/\ op.fn \in {"MultipartFile", "Option<MultipartFile>"}
           /\ ret.tag = "Err" /\ ret.err.kind = "DuplicateField"
           /\ op'.fn = "Vec<MultipartFile>" /\ op'.name = op.name)
          => (ret'.tag = "Ok" /\ Len(ret'.val) >= 2)]_vars

-----------------------------------------------------------------------------
(* Termination.  The payload is finite (MaxStream parts, MaxEvents parts   *)
(* and chunks in all), every dispatched write completes, fails or is       *)
(* cancelled, and the runtime polls the task whenever the stream or the    *)
(* worker pool has something for it: some step is taken as long as one is  *)
(* possible.  Whether the loader returns depends on the lengths of the     *)
(* chunks and on whether a text decodes, not on the bytes themselves: each *)
(* chunk length is fed with one content, 195 169 195 ..., of which the     *)
(* two-byte one is a valid text and the others are not.                    *)
LiveChunks ==
    {c \in Chunks : \A i \in DOMAIN c : c[i] = (IF i % 2 = 1 THEN 195 ELSE 169)}

NextLive ==
    \/ \E h \in PartHeaders, ok \in BOOLEAN : load_parts_field(h, ok)
    \/ load_parts_end
    \/ \E e \in StreamErrors : load_parts_stream_error(e)
    \/ \E c \in LiveChunks : create_text_chunk(c)
    \/ \E e \in StreamErrors : create_text_chunk_error(e)
    \/ create_text_end
    \/ \E c \in LiveChunks : create_file_chunk(c)
    \/ \E e \in StreamErrors : create_file_chunk_error(e)
    \/ create_file_write_ok
    \/ \E k \in 0..(MaxChunkLen - 1) : create_file_write_error(k)
    \/ create_file_write_canceled
    \/ create_file_end

SpecLive == Init /\ [][NextLive]_vars /\ WF_vars(NextLive)

(* C28: under these assumptions load_parts eventually returns, with a      *)
(* field list or with an error, and stays returned.                        *)
C28_Terminates ==
    <>[](pc = "returned" /\ result.kind \in {"Ok", "Err"})

\* load_parts returned a list after a part whose file was written in two
\* chunks
C28_Witness ==
    /\ pc = "returned"
    /\ result.kind = "Ok"
    /\ Len(parts) = 1
    /\ parts[1].kind = "File"
    /\ Len(wire[1].chunks) = 2
    /\ parts[1].size = 2

-----------------------------------------------------------------------------
(***************************************************************************)
(* The fold-based loader (src/multipart/load.rs of the futures 0.1         *)
(* version: load, handle_field, create_file, create_text).  The part       *)
(* stream and each part's chunk stream are folded; the state of a part's   *)
(* fold is (file, written, budget) or (acc, budget).  The same variables   *)
(* hold the state: `parts` is `fields`, `written` and `budget` are the     *)
(* fold's accumulators, `file_budget` is create_file's parameter.          *)
(*                                                                         *)
(* A u64 is held by an integer: a value below zero stands for the value    *)
(* that wrapped around, 2^64 more than the integer.                        *)
(***************************************************************************)

\* parts and chunks the payload of the fold-based loader yields at most
MaxFoldEvents == 3

\* a < b on u64, b a length: a wrapped value is above every length
U64Less(a, b) == IF a < 0 THEN FALSE ELSE a < b

\* fields.insert(0, field)
Insert0(list, item) == <<item>> \o list

\* handle_field: the part is text iff Field::content_type() is text/plain
IsTextField(h) == FieldContentType(h) = TEXT_PLAIN

\* load(multipart, text_limit, file_limit) has been called and the fold
\* awaits the first part
InitFold ==
    /\ config = [text_limit |-> TextLimit, file_limit |-> FileLimit,
                 max_parts |-> MaxPartsCfg]
    /\ pc = "try_next"
    /\ parts = <<>>
    /\ text_budget = config.text_limit
    /\ file_budget = config.file_limit
    /\ cur = NoCur
    /\ written = 0
    /\ budget = 0
    /\ acc = <<>>
    /\ ntf = 0
    /\ holder = "none"
    /\ inflight = <<>>
    /\ files = <<>>
    /\ result = [kind |-> "none", err |-> None]
    /\ wire = <<>>
    /\ fault = "none"
    /\ form = <<>>
    /\ op = NoOp
    /\ ret = NoRet
    /\ handed = <<>>
    /\ first = NoFirst(FALSE)
    /\ calls = <<>>
    /\ req = NoReq

\* the part stream yields a field: handle_field up to the first chunk
load_field(h, create_ok) ==
    /\ pc = "try_next"
    /\ Len(wire) < MaxStream
    /\ EventCount(wire) < MaxFoldEvents
    /\ wire' = Append(wire, [hdr |-> h, chunks |-> <<>>])
    /\ IF ~HeaderOk(h)
       THEN /\ ReturnErr("Parse(Header)", files)
            /\ UNCHANGED <<cur, written, budget, acc, ntf, fault>>
       ELSE IF IsTextField(h)
       THEN \* create_text(field, name, text_budget)
            /\ cur' = [name |-> h.name, filename |-> None, mime |-> None]
            /\ written' = 0
            /\ budget' = text_budget
            /\ acc' = <<>>
            /\ pc' = "text_next"
            /\ UNCHANGED <<ntf, holder, inflight, files, result, fault>>
       ELSE \* create_file(field, name, filename, file_budget)
            IF create_ok
            THEN /\ cur' = [name |-> h.name, filename |-> h.filename, mime |-> None]
                 /\ written' = 0
                 /\ budget' = file_budget
                 /\ files' = Append(files, [content |-> <<>>, exists |-> TRUE])
                 /\ ntf' = Len(files) + 1
                 /\ holder' = "task"
                 /\ pc' = "file_next"
                 /\ UNCHANGED <<acc, inflight, result, fault>>
            ELSE \* NamedTempFile::new() failed
                 /\ ReturnErr("Payload(Io)", files)
                 /\ fault' = "create"
                 /\ UNCHANGED <<cur, written, budget, acc, ntf>>
    /\ UNCHANGED <<config, parts, text_budget, file_budget>>
    /\ UNCHANGED callervars

\* the part stream ends: the fold resolves and map(|k| k.0) gives the fields
load_end ==
    /\ pc = "try_next"
    /\ result' = [kind |-> "Ok", err |-> None]
    /\ pc' = "returned"
    /\ UNCHANGED <<config, parts, text_budget, file_budget, cur, written, budget,
                   acc, ntf, holder, inflight, files, wire, fault>>
    /\ UNCHANGED callervars

\* the part stream yields Err(e): Stream::fold resolves to that error
load_stream_error(e) ==
    /\ pc = "try_next"
    /\ fault' = "stream"
    /\ ReturnErr(e, files)
    /\ UNCHANGED <<config, parts, text_budget, file_budget, cur, written, budget,
                   acc, ntf, wire>>
    /\ UNCHANGED callervars

\* create_text, one chunk: checked against the fold's remaining budget
load_text_chunk(bytes) ==
    /\ pc = "text_next"
    /\ EventCount(wire) < MaxFoldEvents
    /\ wire' = WithChunk(wire, bytes)
    /\ IF budget < Len(bytes)
       THEN /\ ReturnErr("Payload(Overflow)", files)
            /\ UNCHANGED <<acc, written, budget>>
       ELSE /\ acc' = acc \o bytes
            /\ written' = written + Len(bytes)
            /\ budget' = budget - Len(bytes)
            /\ UNCHANGED <<pc, result, files, holder, inflight>>
    /\ UNCHANGED <<config, parts, text_budget, file_budget, cur, ntf, fault>>
    /\ UNCHANGED callervars

\* the chunk stream of a text part yields Err(e)
load_text_chunk_error(e) ==
    /\ pc = "text_next"
    /\ fault' = "chunk"
    /\ ReturnErr(e, files)
    /\ UNCHANGED <<config, parts, text_budget, file_budget, cur, written, budget,
                   acc, ntf, wire>>
    /\ UNCHANGED callervars

\* the chunk stream of a text part ends: from_utf8, then the field is
\* inserted at the front and the remaining text budget carried on
load_text_end ==
    /\ pc = "text_next"
    /\ IF Utf8Valid(acc)
       THEN /\ text_budget' = budget
            /\ parts' = Insert0(parts, TextField(cur.name, acc))
            /\ pc' = "try_next"
            /\ cur' = NoCur
            /\ acc' = <<>>
            /\ written' = 0
            /\ budget' = 0
            /\ UNCHANGED <<result, files, holder, inflight>>
       ELSE /\ ReturnErr("Parse(Utf8)", files)
            /\ UNCHANGED <<text_budget, parts, cur, acc, written, budget>>
    /\ UNCHANGED <<config, file_budget, ntf, wire, fault>>
    /\ UNCHANGED callervars

\* create_file, one chunk: its length is checked against `file_budget`, the
\* parameter of create_file, then the write is dispatched with web::block
load_file_chunk(bytes) ==
    /\ pc = "file_next"
    /\ EventCount(wire) < MaxFoldEvents
    /\ wire' = WithChunk(wire, bytes)
    /\ IF U64Less(file_budget, Len(bytes))
       THEN /\ ReturnErr("Payload(Overflow)", Drop(files, ntf))
       ELSE /\ pc' = "file_write"
            /\ holder' = "worker"
            /\ inflight' = bytes
            /\ UNCHANGED <<result, files>>
    /\ UNCHANGED <<config, parts, text_budget, file_budget, cur, written, budget,
                   acc, ntf, fault>>
    /\ UNCHANGED callervars

\* the chunk stream of a file part yields Err(e)
load_file_chunk_error(e) ==
    /\ pc = "file_next"
    /\ fault' = "chunk"
    /\ ReturnErr(e, Drop(files, ntf))
    /\ UNCHANGED <<config, parts, text_budget, file_budget, cur, written, budget,
                   acc, ntf, wire>>
    /\ UNCHANGED callervars

\* the closure ran: write_all succeeded, then `budget - length`.  When the
\* length is above the budget the subtraction overflows: a build with
\* overflow checks panics in the closure (panics), which drops the file and
\* leaves the task with BlockingError::Canceled; a build without wraps
load_file_write_ok(panics) ==
    /\ pc = "file_write"
    /\ LET fs == [files EXCEPT ![ntf].content = WriteAll(@, inflight)]
           overflows == budget >= 0 /\ budget < Len(inflight)
       IN  IF overflows /\ panics
           THEN /\ ReturnErr("Incomplete", Drop(fs, ntf))
                /\ fault' = "panic"
                /\ UNCHANGED <<written, budget>>
           ELSE /\ files' = fs
                /\ written' = written + Len(inflight)
                /\ budget' = budget - Len(inflight)
                /\ holder' = "task"
                /\ inflight' = <<>>
                /\ pc' = "file_next"
                /\ UNCHANGED <<result, fault>>
    /\ UNCHANGED <<config, parts, text_budget, file_budget, cur, acc, ntf, wire>>
    /\ UNCHANGED callervars

\* the closure ran and write_all failed after k bytes
load_file_write_error(k) ==
    /\ pc = "file_write"
    /\ k < Len(inflight)
    /\ fault' = "write"
    /\ ReturnErr("Payload(Io)",
                 Drop([files EXCEPT ![ntf].content =
                          WriteAll(@, SubSeq(inflight, 1, k))], ntf))
    /\ UNCHANGED <<config, parts, text_budget, file_budget, cur, written, budget,
                   acc, ntf, wire>>
    /\ UNCHANGED callervars

\* the closure never ran: BlockingError::Canceled becomes Incomplete
load_file_write_canceled ==
    /\ pc = "file_write"
    /\ fault' = "cancel"
    /\ ReturnErr("Incomplete", Drop(files, ntf))
    /\ UNCHANGED <<config, parts, text_budget, file_budget, cur, written, budget,
                   acc, ntf, wire>>
    /\ UNCHANGED callervars

\* the chunk stream of a file part ends: the field is inserted at the front
\* and the fold's budget carried on as the file budget
load_file_end ==
    /\ pc = "file_next"
    /\ file_budget' = budget
    /\ parts' = Insert0(parts, FileField(ntf, written, cur.name, cur.filename, None))
    /\ pc' = "try_next"
    /\ cur' = NoCur
    /\ written' = 0
    /\ budget' = 0
    /\ ntf' = 0
    /\ holder' = "none"
    /\ UNCHANGED <<config, text_budget, acc, inflight, files, result, wire, fault>>
    /\ UNCHANGED callervars

NextFold ==
    \/ \E h \in PartHeaders, ok \in BOOLEAN : load_field(h, ok)
    \/ load_end
    \/ \E e \in StreamErrors : load_stream_error(e)
    \/ \E c \in Chunks : load_text_chunk(c)
    \/ \E e \in StreamErrors : load_text_chunk_error(e)
    \/ load_text_end
    \/ \E c \in Chunks : load_file_chunk(c)
    \/ \E e \in StreamErrors : load_file_chunk_error(e)
    \/ \E panics \in BOOLEAN : load_file_write_ok(panics)
    \/ \E k \in 0..(MaxChunkLen - 1) : load_file_write_error(k)
    \/ load_file_write_canceled
    \/ load_file_end

SpecFold == InitFold /\ [][NextFold]_vars

-----------------------------------------------------------------------------
(* C29: in the fold-based loader no temp file ever holds more bytes than   *)
(* the file budget, nor do all of them together; a chunk is sent to the    *)
(* disk only if it fits the budget that remains; and the remaining-budget  *)
(* counters never underflow.                                               *)
C29_FoldFileBudget ==
    /\ \A i \in DOMAIN files : Len(files[i].content) <= config.file_limit
    /\ FileBytesWritten <= config.file_limit
    /\ pc = "file_write" => Len(inflight) <= budget
    /\ budget >= 0
    /\ file_budget >= 0

-----------------------------------------------------------------------------
\* removing the entries at `indexes` from the highest down, each index is
\* within the list and at a File field named n when its turn comes
RECURSIVE RemovalsSafe(_, _, _)
RemovalsSafe(fl, indexes, n) ==
    \/ indexes = <<>>
    \/ LET idx == indexes[Len(indexes)] IN
       /\ idx <= Len(fl)
       /\ fl[idx].kind = "File"
       /\ fl[idx].name = n
       /\ RemovalsSafe(RemoveAt(fl, idx), SubSeq(indexes, 1, Len(indexes) - 1), n)

(* C30: for every field list and name the removals of a file get are safe: *)
(* each collected index is within the list and at a File field of that     *)
(* name when it is removed, and the call does not panic.                   *)
C30_RemovalNeverPanics ==
    [][op'.fn \in FileFns =>
         /\ ret'.tag # "Panic"
         /\ RemovalsSafe(form, FileIndexes(form, 1, op'.name, <<>>), op'.name)]_vars

\* a Vec<MultipartFile> get removed two files and left a file that lay
\* between them in the list
C30_Witness ==
    /\ op.fn = "Vec<MultipartFile>"
    /\ ret.tag = "Ok"
    /\ Len(ret.val) = 2
    /\ \E i \in DOMAIN form :
          /\ form[i].kind = "File"
          /\ ret.val[2].file < form[i].file
          /\ form[i].file < ret.val[1].file

-----------------------------------------------------------------------------
(* C31: a get matches only fields of its own kind.  A text get for n       *)
(* leaves the File fields named n in the list and, when no Text field      *)
(* carries the name, returns NotFound / None / the empty vector whatever   *)
(* File fields do; a file get for n leaves the Text fields named n in the  *)
(* list and, when no File field carries the name, returns NotFound / None  *)
(* / the empty vector whatever Text fields do.                             *)
C31_OwnKindOnly ==
    [][LET n == op'.name IN
       /\ op'.fn \in TextFns =>
            /\ FilesNamed(form', n) = FilesNamed(form, n)
            /\ TextsNamed(form, n) = <<>> =>
                 /\ op'.fn = "T" => ret' = Err(NotFound(n))
                 /\ op'.fn = "Option<T>" => ret' = Ok(NoneOpt)
                 /\ op'.fn = "Vec<T>" => ret' = Ok(<<>>)
       /\ op'.fn \in FileFns =>
            /\ TextsNamed(form', n) = TextsNamed(form, n)
            /\ FilesNamed(form, n) = <<>> =>
                 /\ form' = form
                 /\ op'.fn = "MultipartFile" => ret' = Err(NotFound(n))
                 /\ op'.fn = "Option<MultipartFile>" => ret' = Ok(NoneOpt)
                 /\ op'.fn = "Vec<MultipartFile>" => ret' = Ok(<<>>)]_vars

\* a scalar text get found nothing under a name that a File field carries,
\* after a file get had taken a file whose name a Text field still carries
C31_Witness ==
    /\ op.fn = "T"
    /\ ret = Err(NotFound(op.name))
    /\ FilesNamed(form, op.name) # <<>>
    /\ \E i \in DOMAIN handed : TextsNamed(form, handed[i].name) # <<>>

-----------------------------------------------------------------------------
(***************************************************************************)
(* Chunk boundaries.  Two runs of load_parts over the same parts differ    *)
(* only in how the bytes of each part are cut into chunks.  Every run is   *)
(* compared with the run over the same parts in which each part arrives    *)
(* as one chunk: two runs that both agree with it agree with each other.   *)
(***************************************************************************)

\* the runs in which neither the part stream, nor a chunk stream, nor the
\* disk reports a fault
NextClean ==
    \/ \E h \in PartHeaders : load_parts_field(h, TRUE)
    \/ load_parts_end
    \/ \E c \in Chunks : create_text_chunk(c)
    \/ create_text_end
    \/ \E c \in Chunks : create_file_chunk(c)
    \/ create_file_write_ok
    \/ create_file_end

SpecClean == Init /\ [][NextClean]_vars

\* what a caller can see of a field list: names, texts, sizes, filenames,
\* mimes, and the bytes in the temp files
Summary(ps, fs) ==
    [j \in DOMAIN ps |->
        [kind |-> ps[j].kind, name |-> ps[j].name, text |-> ps[j].text,
         size |-> ps[j].size, filename |-> ps[j].filename, mime |-> ps[j].mime,
         content |-> IF ps[j].kind = "File" THEN fs[ps[j].file].content ELSE <<>>]]

\* load_parts over parts that each arrive as one chunk, from part i on, with
\* no fault of the stream or the disk: Ok with the field list, or the error
\* and the part it was returned at
RECURSIVE load_parts_whole(_, _, _, _, _, _, _)
load_parts_whole(cfg, whole, i, ps, tb, fb, fs) ==
    IF i > Len(whole)
    THEN [kind |-> "Ok", err |-> None, at |-> 0, fields |-> Summary(ps, fs)]
    ELSE LET h == whole[i].hdr
             b == whole[i].bytes
             Fail(e) == [kind |-> "Err", err |-> e, at |-> i, fields |-> <<>>]
         IN  IF TooManyParts(Len(ps), cfg.max_parts) THEN Fail("Payload(Overflow)")
             ELSE IF ~HeaderOk(h) THEN Fail("Parse(Header)")
             ELSE IF IsTextPart(h)
             THEN IF OverBudget(tb, Len(b)) THEN Fail("Payload(Overflow)")
                  ELSE IF ~Utf8Valid(b) THEN Fail("Parse(Utf8)")
                  ELSE load_parts_whole(cfg, whole, i + 1,
                                        Push(ps, TextField(h.name, b)),
                                        tb - Len(b), fb, fs)
             ELSE IF OverBudget(fb, Len(b)) THEN Fail("Payload(Overflow)")
                  ELSE load_parts_whole(cfg, whole, i + 1,
                                        Push(ps, FileField(Len(fs) + 1, Len(b), h.name,
                                                           h.filename, ContentType(h))),
                                        tb, fb - Len(b),
                                        Append(fs, [content |-> WriteAll(<<>>, b),
                                                    exists |-> TRUE]))

\* the parts pulled, each with its bytes in one piece
Whole(w) == [i \in DOMAIN w |-> [hdr |-> w[i].hdr, bytes |-> WireBytes(w[i])]]

\* the same parts, the last one with more bytes to come
ExtendLast(whole, ext) == [whole EXCEPT ![Len(whole)].bytes = @ \o ext]

\* what load_parts returned: Ok with the field list, or the error and the
\* part it was returned at
Outcome ==
    IF result.kind = "Ok"
    THEN [kind |-> "Ok", err |-> None, at |-> 0, fields |-> Summary(parts, files)]
    ELSE [kind |-> "Err", err |-> result.err, at |-> Len(wire), fields |-> <<>>]

\* bytes a part may go on with, one content for each length: a run that
\* returned before the end of a part has not looked at them
Rest == {c \in Chunks : \A i \in DOMAIN c : c[i] = 195}

\* the run agrees with the one-chunk run over the parts pulled; when it
\* returned before the end of a part (count, header, budget), whatever
\* number of bytes the part goes on with
AgreesWithWhole ==
    LET whole == Whole(wire)
        out == Outcome
    IN  IF result.kind = "Err" /\ result.err # "Parse(Utf8)"
        THEN \A ext \in Rest :
                load_parts_whole(config, ExtendLast(whole, ext), 1, <<>>,
                                 config.text_limit, config.file_limit, <<>>) = out
        ELSE load_parts_whole(config, whole, 1, <<>>,
                              config.text_limit, config.file_limit, <<>>) = out

(* C32: the outcome of load_parts does not depend on the chunk boundaries. *)
(* A run without a fault of the stream or the disk returns what the run    *)
(* over the same parts, each in one chunk, returns: the same field list    *)
(* (names, texts, sizes, file contents), or the same error at the same     *)
(* part; and it returns the decoding error only at the end of a part, when *)
(* all the bytes of the part have been pulled.                             *)
C32_ChunkingIrrelevant ==
    /\ []((pc = "returned" /\ fault = "none") => AgreesWithWhole)
    /\ [][(pc # "returned" /\ pc' = "returned" /\ fault' = "none"
           /\ result'.err = "Parse(Utf8)") => wire' = wire]_vars

\* load_parts returned a Text field whose two bytes, one scalar value, came
\* in two chunks
C32_Witness ==
    /\ pc = "returned"
    /\ fault = "none"
    /\ result.kind = "Ok"
    /\ \E i \in DOMAIN parts :
          /\ parts[i].kind = "Text"
          /\ parts[i].text = <<195, 169>>
          /\ wire[i].chunks = << <<195>>, <<169>> >>
====
